---- MODULE Spec2Model ----
(***************************************************************************)
(* A model of the panther log-processor's AWS indicator scanners           *)
(* (parsers/awslogs/pantherlog.go) and of its time codecs                  *)
(* (pantherlog/tcodec/tcodec.go).                                          *)
(*                                                                         *)
(* Go strings and raw JSON are sequences of characters; a character is a   *)
(* one-character TLA+ string, except the multi-byte characters named in    *)
(* ByteLen.                                                                *)
(***************************************************************************)
EXTENDS Integers, Sequences, FiniteSets, TLC

VARIABLES
    row,        \* the AWSPantherLog the Append* methods and the scanners act on
    call,       \* the last call of a pure operation, with its inputs and results
    pc,         \* tryDecoder.DecodeTime: "idle", "loop" or "done"
    decoders,   \* tryDecoder.DecodeTime: d.decoders
    iter,       \* tryDecoder.DecodeTime: the caller's iterator
    rawJSON,    \* tryDecoder.DecodeTime: the bytes SkipAndReturnBytes captured
    child,      \* tryDecoder.DecodeTime: the borrowed scratch iterator
    idx,        \* tryDecoder.DecodeTime: the loop's next index (1-based)
    ret,        \* tryDecoder.DecodeTime: the returned timestamp
    pool,       \* the iterator pool: the parked iterators
    borrowed,   \* iterators borrowed from the pool and not returned
    attempts,   \* history: one record per dec.DecodeTime(child) of the current call
    callerIn,   \* history: the caller's iterator as DecodeTime got it, and the value it was at
    tdec,       \* a TimeDecoder built with the combinators
    tenc,       \* a TimeEncoder built with the combinators
    codecOp,    \* history: the last combinator applied and what it was applied to
    initStep,        \* awslogs.init: the registrations done
    fieldRegistry,   \* pantherlog's field registry: field id -> FieldMeta
    scannerRegistry, \* pantherlog's scanner registry: name -> scanner and output fields
    fatal,           \* the reason the process was halted for, "" if it was not
    regLog,          \* history: the registrations called for, in order
    cfnPc,       \* destroyCfnStacks: the position of the calling goroutine
    cfnI,        \* destroyCfnStacks: the index of the loop it is in
    stacks,      \* per stack: the state of its deleteFunc goroutine
    finishCount, \* destroyCfnStacks: results handled
    errCount,    \* destroyCfnStacks: results handled that carry an error
    cfnErr,      \* what destroyCfnStacks returned: "none" while it runs
    masterStack, \* destroyCfnStacks: its argument
    outcome,     \* history, per stack: what its deleteStack returned, "none" before
    received     \* history, per stack: the results of it that were received

vars == <<row, call, pc, decoders, iter, rawJSON, child, idx, ret, pool, borrowed, attempts, callerIn,
          tdec, tenc, codecOp, initStep, fieldRegistry, scannerRegistry, fatal, regLog,
          cfnPc, cfnI, stacks, finishCount, errCount, cfnErr, masterStack, outcome, received>>

(***************************************************************************)
(* Strings                                                                 *)
(***************************************************************************)

Digits == {"0", "1", "2", "3", "4", "5", "6", "7", "8", "9"}

\* The number of bytes of a character in UTF-8: "U0663" stands for the one
\* character ARABIC-INDIC DIGIT THREE, which takes two bytes and is a Unicode
\* digit but no ASCII digit; every other character of the model takes one.
ByteLen(c) == IF c = "U0663" THEN 2 ELSE 1

RECURSIVE len(_)
\* Go's len(s): the number of bytes of s.
len(s) == IF s = <<>> THEN 0 ELSE ByteLen(Head(s)) + len(Tail(s))

\* strings.HasPrefix(s, prefix)
HasPrefix(s, prefix) ==
    /\ Len(s) >= Len(prefix)
    /\ SubSeq(s, 1, Len(prefix)) = prefix

\* strings.LastIndex(s, "/") as a 1-based character position, 0 if absent.
LastIndexSlash(s) ==
    IF \E i \in 1..Len(s) : s[i] = "/"
    THEN CHOOSE i \in 1..Len(s) : s[i] = "/" /\ \A j \in (i+1)..Len(s) : s[j] # "/"
    ELSE 0

RECURSIVE SplitN(_, _)
\* strings.SplitN(s, ":", n): at most n sections, the last one unsplit.
SplitN(s, n) ==
    IF n = 1 \/ ~(\E i \in 1..Len(s) : s[i] = ":")
    THEN <<s>>
    ELSE LET i == CHOOSE k \in 1..Len(s) : s[k] = ":" /\ \A j \in 1..(k-1) : s[j] # ":"
         IN  <<SubSeq(s, 1, i - 1)>> \o SplitN(SubSeq(s, i + 1, Len(s)), n - 1)

(***************************************************************************)
(* The row: AWSPantherLog and its four indicator collections               *)
(***************************************************************************)

FieldAccountID == 1000
FieldInstanceID == 1001
FieldARN == 1002
FieldTag == 1003

FieldIDs == {FieldAccountID, FieldInstanceID, FieldARN, FieldTag}

sizeAccountID == 12

\* awsAccountIDRegex = `^\d{12}$`: Go's \d is the ASCII digits only, and
\* without the m flag ^ and $ match at the ends of the text alone.
awsAccountIDRegex(value) ==
    /\ Len(value) = 12
    /\ \A i \in 1..Len(value) : value[i] \in Digits

\* A *parsers.PantherAnyString: nil, or the values it holds.
NilAnyString == [isNil |-> TRUE, items |-> <<>>]

\* parsers.NewPantherAnyString()
NewPantherAnyString == [isNil |-> FALSE, items |-> <<>>]

Contains(items, v) == \E i \in 1..Len(items) : items[i] = v

RECURSIVE AppendAnyString(_, _)
\* parsers.AppendAnyString(any, values...): set semantics, first-seen order.
AppendAnyString(any, values) ==
    IF values = <<>> THEN any
    ELSE AppendAnyString(
             IF Contains(any.items, Head(values)) THEN any
             ELSE [any EXCEPT !.items = Append(@, Head(values))],
             Tail(values))

\* The struct AWSPantherLog: field id -> collection.
NewAWSPantherLog == [f \in FieldIDs |-> NilAnyString]

LazyCreate(pl, f) == IF pl[f].isNil THEN [pl EXCEPT ![f] = NewPantherAnyString] ELSE pl

RECURSIVE AppendAnyAWSAccountIds(_, _)
AppendAnyAWSAccountIds(pl, values) ==
    IF values = <<>> THEN pl
    ELSE IF ~awsAccountIDRegex(Head(values))
         THEN AppendAnyAWSAccountIds(pl, Tail(values))
         ELSE LET created == LazyCreate(pl, FieldAccountID)
              IN  AppendAnyAWSAccountIds(
                      [created EXCEPT ![FieldAccountID] = AppendAnyString(@, <<Head(values)>>)],
                      Tail(values))

AppendAnyAWSInstanceIds(pl, values) ==
    [LazyCreate(pl, FieldInstanceID) EXCEPT ![FieldInstanceID] = AppendAnyString(@, values)]

AppendAnyAWSARNs(pl, values) ==
    [LazyCreate(pl, FieldARN) EXCEPT ![FieldARN] = AppendAnyString(@, values)]

AppendAnyAWSTags_Replace(pl, values) ==
    [pl EXCEPT ![FieldTag] = [isNil |-> FALSE, items |-> values]]

AppendAnyAWSTags(pl, values) ==
    [LazyCreate(pl, FieldTag) EXCEPT ![FieldTag] = AppendAnyString(@, values)]

\* A *string: nil, or a pointer to a string.
NilPtr == [isNil |-> TRUE, val |-> <<>>]
Ptr(s) == [isNil |-> FALSE, val |-> s]

RECURSIVE AppendAnyAWSAccountIdPtrs(_, _)
AppendAnyAWSAccountIdPtrs(pl, values) ==
    IF values = <<>> THEN pl
    ELSE AppendAnyAWSAccountIdPtrs(
             IF ~Head(values).isNil THEN AppendAnyAWSAccountIds(pl, <<Head(values).val>>) ELSE pl,
             Tail(values))

RECURSIVE AppendAnyAWSInstanceIdPtrs(_, _)
AppendAnyAWSInstanceIdPtrs(pl, values) ==
    IF values = <<>> THEN pl
    ELSE AppendAnyAWSInstanceIdPtrs(
             IF ~Head(values).isNil THEN AppendAnyAWSInstanceIds(pl, <<Head(values).val>>) ELSE pl,
             Tail(values))

RECURSIVE AppendAnyAWSARNPtrs(_, _)
AppendAnyAWSARNPtrs(pl, values) ==
    IF values = <<>> THEN pl
    ELSE AppendAnyAWSARNPtrs(
             IF ~Head(values).isNil THEN AppendAnyAWSARNs(pl, <<Head(values).val>>) ELSE pl,
             Tail(values))

RECURSIVE AppendAnyAWSTagPtrs(_, _)
AppendAnyAWSTagPtrs(pl, values) ==
    IF values = <<>> THEN pl
    ELSE AppendAnyAWSTagPtrs(
             IF ~Head(values).isNil THEN AppendAnyAWSTags(pl, <<Head(values).val>>) ELSE pl,
             Tail(values))

(***************************************************************************)
(* The scanners and the pantherlog.ValueWriter they write to               *)
(***************************************************************************)

\* Two implementations of pantherlog.ValueWriter: a row ("row": the values go
\* to the row's collection of the field, unvalidated) and a recorder ("rec":
\* the WriteValues calls in order).
RowWriter(pl) == [kind |-> "row", pl |-> pl, calls |-> <<>>]
RecWriter == [kind |-> "rec", pl |-> NewAWSPantherLog, calls |-> <<>>]

\* w.WriteValues(id, values...)
WriteValues(w, id, values) ==
    IF w.kind = "rec"
    THEN [w EXCEPT !.calls = Append(@, [id |-> id, values |-> values])]
    ELSE IF values = <<>> THEN w
    ELSE [w EXCEPT !.pl = [LazyCreate(w.pl, id) EXCEPT ![id] = AppendAnyString(@, values)]]

ScanAccountID_LengthOnly(w, input) ==
    IF len(input) = sizeAccountID
    THEN WriteValues(w, FieldAccountID, <<input>>)
    ELSE w

ScanAccountID(w, input) ==
    IF len(input) = sizeAccountID /\ awsAccountIDRegex(input)
    THEN WriteValues(w, FieldAccountID, <<input>>)
    ELSE w

ScanInstanceID_Contains(w, input) ==
    IF \E i \in 1..Len(input) : HasPrefix(SubSeq(input, i, Len(input)), <<"i", "-">>)
    THEN WriteValues(w, FieldInstanceID, <<input>>)
    ELSE w

ScanInstanceID(w, input) ==
    IF HasPrefix(input, <<"i", "-">>)
    THEN WriteValues(w, FieldInstanceID, <<input>>)
    ELSE w

scanResourceInstanceID_FirstSlash(w, input) ==
    IF ~HasPrefix(input, <<"i", "n", "s", "t", "a", "n", "c", "e", "/">>)
    THEN w
    ELSE IF 8 < len(input) - 2
         THEN ScanInstanceID(w, SubSeq(input, 10, Len(input)))
         ELSE w

scanResourceInstanceID(w, input) ==
    IF ~HasPrefix(input, <<"i", "n", "s", "t", "a", "n", "c", "e", "/">>)
    THEN w
    ELSE LET slashPos   == LastIndexSlash(input)
             \* the byte index of the last "/"
             slashIndex == len(SubSeq(input, 1, slashPos - 1))
         IN  IF slashIndex < len(input) - 2
             THEN ScanInstanceID(w, SubSeq(input, slashPos + 1, Len(input)))
             ELSE w

arnParse_NoPrefix(input) ==
    LET sections == SplitN(input, 6)
    IN  IF Len(sections) # 6
        THEN [err |-> TRUE, AccountID |-> <<>>, Resource |-> <<>>]
        ELSE [err |-> FALSE, AccountID |-> sections[5], Resource |-> sections[6]]

\* arn.Parse of the AWS SDK: the prefix "arn:" and six sections split at ":".
arnParse(input) ==
    IF ~HasPrefix(input, <<"a", "r", "n", ":">>)
    THEN [err |-> TRUE, AccountID |-> <<>>, Resource |-> <<>>]
    ELSE LET sections == SplitN(input, 6)
         IN  IF Len(sections) # 6
             THEN [err |-> TRUE, AccountID |-> <<>>, Resource |-> <<>>]
             ELSE [err |-> FALSE, AccountID |-> sections[5], Resource |-> sections[6]]

ScanARN(w, input) ==
    LET parsedARN == arnParse(input)
    IN  IF parsedARN.err
        THEN w
        ELSE scanResourceInstanceID(
                 ScanAccountID(WriteValues(w, FieldARN, <<input>>), parsedARN.AccountID),
                 parsedARN.Resource)

(***************************************************************************)
(* time.Time: days since the UNIX epoch, second of the day, nanosecond of  *)
(* the second, and the location it is shown in. The zero time.Time is      *)
(* 0001-01-01T00:00:00Z.                                                   *)
(***************************************************************************)

ZeroDay == -719162

SecondsPerDay == 86400

\* time.Time{}
ZeroTime == [day |-> ZeroDay, sod |-> 0, nsec |-> 0, loc |-> "UTC"]

\* tm.IsZero(): the instant alone decides, not the location.
IsZero(tm) == tm.day = ZeroDay /\ tm.sod = 0 /\ tm.nsec = 0

\* tm.In(loc)
TimeIn(tm, loc) == [tm EXCEPT !.loc = loc]

\* time.Unix(sec, nsec) for 0 <= nsec < 10^9 (the local location is "UTC").
TimeUnix(sec, nsec) ==
    [day |-> sec \div SecondsPerDay, sod |-> sec % SecondsPerDay, nsec |-> nsec, loc |-> "UTC"]

RECURSIVE ParseDigits(_)
\* The value of a run of decimal digits.
ParseDigits(ds) ==
    IF ds = <<>> THEN 0
    ELSE 10 * ParseDigits(SubSeq(ds, 1, Len(ds) - 1)) + (CHOOSE n \in 0..9 : ToString(n) = ds[Len(ds)])

IsDigits(ds) == ds # <<>> /\ \A i \in 1..Len(ds) : ds[i] \in Digits

\* A run of digits cut or zero-padded on the right to n digits.
PadRight(ds, n) == [i \in 1..n |-> IF i <= Len(ds) THEN ds[i] ELSE "0"]

\* A run of digits zero-padded on the left to at least n digits.
PadLeft(ds, n) == IF Len(ds) >= n THEN ds ELSE [i \in 1..(n - Len(ds)) |-> "0"] \o ds

(***************************************************************************)
(* int64: eight bytes, the least significant first, in two's complement.   *)
(* The arithmetic wraps as Go's does.                                      *)
(***************************************************************************)

RECURSIVE mulAdd(_, _, _)
\* The bytes of a*c + k for 0 <= c, k, as many as a has: what is carried out
\* of the last byte is lost.
mulAdd(a, c, k) ==
    IF a = <<>> THEN <<>>
    ELSE <<(Head(a) * c + k) % 256>> \o mulAdd(Tail(a), c, (Head(a) * c + k) \div 256)

RECURSIVE mulAddCarry(_, _, _)
\* What a*c + k carries out of the last byte of a.
mulAddCarry(a, c, k) ==
    IF a = <<>> THEN k ELSE mulAddCarry(Tail(a), c, (Head(a) * c + k) \div 256)

int64Zero == <<0, 0, 0, 0, 0, 0, 0, 0>>

\* math.MinInt64
int64Min == <<0, 0, 0, 0, 0, 0, 0, 128>>

int64IsNeg(a) == a[8] >= 128

\* -a
int64Neg(a) ==
    mulAdd(<<255 - a[1], 255 - a[2], 255 - a[3], 255 - a[4],
             255 - a[5], 255 - a[6], 255 - a[7], 255 - a[8]>>, 1, 1)

\* a * c for a small c > 0
int64Mul(a, c) == mulAdd(a, c, 0)

\* a + k for a small k >= 0; a - 1
int64Add(a, k) == mulAdd(a, 1, k)
int64Dec(a) == int64Neg(int64Add(int64Neg(a), 1))

\* int64(n) of a small integer
int64FromInt(n) ==
    IF n >= 0 THEN mulAdd(int64Zero, 1, n) ELSE int64Neg(mulAdd(int64Zero, 1, 0 - n))

\* A small int64 as an integer.
int64ToInt(a) ==
    LET m == IF int64IsNeg(a) THEN int64Neg(a) ELSE a
        v == m[1] + 256 * m[2] + 65536 * m[3] + 16777216 * m[4]
    IN  IF int64IsNeg(a) THEN 0 - v ELSE v

\* One step of a long division: the quotient and the remainder of the higher
\* bytes, then the next byte down.
divStep(hi, byte, c) ==
    [q |-> <<(hi.r * 256 + byte) \div c>> \o hi.q, r |-> (hi.r * 256 + byte) % c]

RECURSIVE uintDivMod(_, _)
\* The unsigned number a by a small c > 0: quotient and remainder.
uintDivMod(a, c) ==
    IF a = <<>> THEN [q |-> <<>>, r |-> 0]
    ELSE divStep(uintDivMod(Tail(a), c), Head(a), c)

uintQuo(a, c) == uintDivMod(a, c).q

uintRem(a, c) == uintDivMod(a, c).r

\* a / c and a % c of Go for a small c > 0: the quotient is cut towards zero,
\* the remainder has the sign of a.
int64Quo(a, c) ==
    IF int64IsNeg(a) THEN int64Neg(uintQuo(int64Neg(a), c)) ELSE uintQuo(a, c)

int64Rem(a, c) ==
    IF int64IsNeg(a) THEN 0 - uintRem(int64Neg(a), c) ELSE uintRem(a, c)

\* The quotient and the remainder of a by c, the remainder in 0..c-1.
int64FloorQuo(a, c) == IF int64Rem(a, c) < 0 THEN int64Dec(int64Quo(a, c)) ELSE int64Quo(a, c)

int64FloorRem(a, c) == IF int64Rem(a, c) < 0 THEN int64Rem(a, c) + c ELSE int64Rem(a, c)

\* One more digit d after the digits of p.
digitStep(p, d) ==
    [v |-> mulAdd(p.v, 10, d), over |-> p.over \/ mulAddCarry(p.v, 10, d) > 0]

RECURSIVE uintOfDigits(_)
\* The unsigned number a run of decimal digits stands for, and whether it
\* is beyond 64 bits.
uintOfDigits(ds) ==
    IF ds = <<>> THEN [v |-> int64Zero, over |-> FALSE]
    ELSE digitStep(uintOfDigits(SubSeq(ds, 1, Len(ds) - 1)),
                   CHOOSE n \in 0..9 : ToString(n) = ds[Len(ds)])

\* The int64 of a sign and a run of digits; ok is FALSE beyond int64.
int64OfDigits(neg, ds) ==
    LET u == uintOfDigits(ds)
    IN  [ok |-> ~u.over /\ (~int64IsNeg(u.v) \/ (neg /\ u.v = int64Min)),
         n  |-> IF neg THEN int64Neg(u.v) ELSE u.v]

RECURSIVE uintDigits(_)
\* The decimal digits of an unsigned number, none for 0.
uintDigits(a) ==
    IF a = int64Zero THEN <<>>
    ELSE uintDigits(uintQuo(a, 10)) \o <<ToString(uintRem(a, 10))>>

\* strconv.FormatInt(a, 10)
int64Digits(a) ==
    IF a = int64Zero THEN <<"0">>
    ELSE IF int64IsNeg(a) THEN <<"-">> \o uintDigits(int64Neg(a))
    ELSE uintDigits(a)

\* time.Unix(0, nsec): the seconds are nsec/1e9 rounded down.
timeUnixNano(nsec) ==
    LET us  == int64FloorQuo(nsec, 1000)
        ms  == int64FloorQuo(us, 1000)
        sec == int64FloorQuo(ms, 1000)
    IN  [day  |-> int64ToInt(int64FloorQuo(sec, SecondsPerDay)),
         sod  |-> int64FloorRem(sec, SecondsPerDay),
         nsec |-> int64FloorRem(nsec, 1000) + 1000 * int64FloorRem(us, 1000)
                      + 1000000 * int64FloorRem(ms, 1000),
         loc  |-> "UTC"]

\* tm.UnixNano(): the seconds since the epoch times 1e9, plus the nanoseconds.
UnixNano(tm) ==
    LET sec == mulAdd(int64FromInt(tm.day), SecondsPerDay, tm.sod)
    IN  mulAdd(int64Mul(int64Mul(sec, 1000), 1000), 1000, tm.nsec)

\* A float64 is the decimal number it was read from or computed as: sign,
\* digits of the whole part, digits of the fraction.
\* int64(sec*usec): the microseconds of sec, cut towards zero. Beyond int64
\* the conversion is left to the implementation (math.MinInt64 on amd64).
floatMicros(f) ==
    LET r == int64OfDigits(f.neg, f.whole \o PadRight(f.frac, 6))
    IN  IF r.ok THEN r.n ELSE int64Min

\* UnixSeconds(sec): int64(sec*usec) drops what is below a microsecond, and
\* the product with precision wraps.
UnixSeconds(f) == timeUnixNano(int64Mul(floatMicros(f), 1000))

\* UnixMilliseconds(n): the product n*int64(time.Millisecond) wraps.
UnixMilliseconds(n) == timeUnixNano(int64Mul(int64Mul(n, 1000), 1000))

\* time.Duration(d).Seconds(): the whole seconds and the nanoseconds of d.
DurationSeconds(d) ==
    LET m   == IF int64IsNeg(d) THEN int64Neg(d) ELSE d
        us  == uintQuo(m, 1000)
        ms  == uintQuo(us, 1000)
        sec == uintQuo(ms, 1000)
        ns  == uintRem(m, 1000) + 1000 * uintRem(us, 1000) + 1000000 * uintRem(ms, 1000)
    IN  [neg   |-> int64IsNeg(d),
         whole |-> IF uintDigits(sec) = <<>> THEN <<"0">> ELSE uintDigits(sec),
         frac  |-> PadLeft(IF ns = 0 THEN <<>> ELSE uintDigits(int64FromInt(ns)), 9)]

\* A decimal text as a float64: [-]digits[.digits]; ok is FALSE otherwise.
ParseDecimal(s) ==
    LET neg  == s # <<>> /\ Head(s) = "-"
        body == IF neg THEN Tail(s) ELSE s
        dot  == IF \E i \in 1..Len(body) : body[i] = "."
                THEN CHOOSE i \in 1..Len(body) : body[i] = "." /\ \A j \in 1..(i-1) : body[j] # "."
                ELSE Len(body) + 1
        whole == SubSeq(body, 1, dot - 1)
        frac  == SubSeq(body, dot + 1, Len(body))
    IN  [ok    |-> IsDigits(whole) /\ (dot > Len(body) \/ IsDigits(frac)),
         neg   |-> neg, whole |-> whole, frac |-> frac]

\* strconv.ParseFloat(s, 64) on decimal texts.
ParseFloat(s) == ParseDecimal(s)

\* strconv.ParseInt(s, 10, 64): [-]digits, within int64.
ParseInt(s) ==
    LET neg  == s # <<>> /\ Head(s) = "-"
        body == IF neg THEN Tail(s) ELSE s
        r    == IF IsDigits(body) THEN int64OfDigits(neg, body) ELSE [ok |-> FALSE, n |-> int64Zero]
    IN  [ok |-> r.ok, n |-> IF r.ok THEN r.n ELSE int64Zero]

StrTime == <<"2", "0", "2", "0", "-", "0", "1", "-", "0", "1", "T", "0", "0", ":", "0", "0", ":", "0", "0", "Z">>
StrZero == <<"0", "0", "0", "1", "-", "0", "1", "-", "0", "1", "T", "0", "0", ":", "0", "0", ":", "0", "0", "Z">>
StrBad == <<"b", "a", "d">>
StrSec == <<"1", "5", "7", "7", "8", "3", "6", "8", "0", "0">>
StrFrac == <<"1", "5", "7", "7", "8", "3", "6", "8", "0", "0", ".", "5">>

\* 2020-01-01T00:00:00Z
Time2020 == TimeUnix(ParseDigits(StrSec), 0)

\* The layouts of the model: time.RFC3339, and "bad", which holds no element
\* of the reference time and so stands for itself.
LayoutRFC3339 == "2006-01-02T15:04:05Z07:00"
LayoutRFC3339Nano == "2006-01-02T15:04:05.999999999Z07:00"
LayoutBad == "bad"

\* time.Parse(layout, s) on the texts of the model: the time, or the error
\* and the zero time.
timeParse(layout, s) ==
    IF layout = LayoutRFC3339 /\ s = StrTime THEN [err |-> "", tm |-> Time2020]
    ELSE IF layout = LayoutRFC3339 /\ s = StrZero THEN [err |-> "", tm |-> ZeroTime]
    ELSE IF layout = LayoutBad /\ s = StrBad THEN [err |-> "", tm |-> ZeroTime]
    ELSE [err |-> "parsing time: cannot parse", tm |-> ZeroTime]

\* tm.Format(layout): the text, given by what determines it.
timeFormat(tm, layout) == [layout |-> layout, tm |-> tm]

(***************************************************************************)
(* jsoniter.Iterator over one raw JSON value: buf holds the value, head    *)
(* counts the bytes consumed, Error is the first error reported.           *)
(***************************************************************************)

NoError == [op |-> "", msg |-> ""]

\* An iterator at the start of the bytes of `raw`.
NewIterator(raw) == [buf |-> raw, head |-> 0, Error |-> NoError]

\* iter.ReportError(op, msg): the first error stays.
ReportError(it, op, msg) ==
    IF it.Error # NoError THEN it ELSE [it EXCEPT !.Error = [op |-> op, msg |-> msg]]

\* iter.WhatIsNext(): the next byte decides.
WhatIsNext(it) ==
    IF it.head >= Len(it.buf) THEN "InvalidValue"
    ELSE LET c == it.buf[it.head + 1]
         IN  IF c = "\"" THEN "StringValue"
             ELSE IF c = "n" THEN "NilValue"
             ELSE IF c \in Digits \cup {"-"} THEN "NumberValue"
             ELSE IF c \in {"t", "f"} THEN "BoolValue"
             ELSE IF c = "[" THEN "ArrayValue"
             ELSE IF c = "{" THEN "ObjectValue"
             ELSE "InvalidValue"

RECURSIVE skipString(_, _)
\* The index of the quote that closes a string, looked for from index i on
\* (the strings here have no escapes); the end of the bytes if there is none.
skipString(buf, i) ==
    IF i >= Len(buf) THEN Len(buf)
    ELSE IF buf[i] = "\"" THEN i ELSE skipString(buf, i + 1)

RECURSIVE skipNumber(_, _)
\* The index of the last byte of a number that goes on at index i.
skipNumber(buf, i) ==
    IF i > Len(buf) \/ buf[i] \notin Digits \cup {"-", "+", ".", "e", "E"} THEN i - 1
    ELSE skipNumber(buf, i + 1)

RECURSIVE skipNested(_, _, _)
\* The index of the bracket that closes an array or an object, looked for
\* from index i on at the given depth, the strings inside skipped.
skipNested(buf, i, depth) ==
    IF i >= Len(buf) THEN Len(buf)
    ELSE IF buf[i] = "\"" THEN skipNested(buf, skipString(buf, i + 1) + 1, depth)
    ELSE IF buf[i] \in {"[", "{"} THEN skipNested(buf, i + 1, depth + 1)
    ELSE IF buf[i] \in {"]", "}"}
         THEN IF depth = 1 THEN i ELSE skipNested(buf, i + 1, depth - 1)
    ELSE skipNested(buf, i + 1, depth)

\* The head after the value that starts at head h < Len(buf): what the first
\* byte says the value is decides how far it goes.
skipValue(buf, h) ==
    LET c == buf[h + 1]
    IN  IF c = "\"" THEN skipString(buf, h + 2)
        ELSE IF c \in {"n", "t"} THEN IF h + 4 <= Len(buf) THEN h + 4 ELSE Len(buf)
        ELSE IF c = "f" THEN IF h + 5 <= Len(buf) THEN h + 5 ELSE Len(buf)
        ELSE IF c \in Digits \cup {"-"} THEN skipNumber(buf, h + 2)
        ELSE IF c \in {"[", "{"} THEN skipNested(buf, h + 2, 1)
        ELSE h + 1

\* The iterator moved to the end of its bytes, whatever they hold.
Skip_ToEnd(it) ==
    IF it.head >= Len(it.buf)
    THEN ReportError(it, "Skip", "do not know how to skip")
    ELSE [it EXCEPT !.head = Len(it.buf)]

\* iter.Skip(): over the one value the iterator is at.
Skip(it) ==
    IF it.head >= Len(it.buf) \/ WhatIsNext(it) = "InvalidValue"
    THEN ReportError([it EXCEPT !.head = IF it.head >= Len(it.buf) THEN it.head ELSE it.head + 1],
                     "Skip", "do not know how to skip")
    ELSE [it EXCEPT !.head = skipValue(it.buf, it.head)]

\* iter.ReadNil(), called on a null.
ReadNil(it) == [it EXCEPT !.head = it.head + 4]

\* iter.ReadString(): a string, or a null read as "", or an error after the
\* one byte nextToken consumed.
ReadString(it) ==
    IF it.head >= Len(it.buf)
    THEN [it |-> ReportError(it, "ReadString", "expects \" or n, but found end"), s |-> <<>>]
    ELSE LET c == it.buf[it.head + 1]
         IN  IF c = "\""
             THEN LET close == CHOOSE q \in (it.head + 2)..Len(it.buf) :
                                   /\ it.buf[q] = "\""
                                   /\ \A j \in (it.head + 2)..(q - 1) : it.buf[j] # "\""
                  IN  [it |-> [it EXCEPT !.head = close],
                       s  |-> SubSeq(it.buf, it.head + 2, close - 1)]
             ELSE IF c = "n"
             THEN [it |-> [it EXCEPT !.head = it.head + 4], s |-> <<>>]
             ELSE [it |-> ReportError([it EXCEPT !.head = it.head + 1],
                                      "ReadString", "expects \" or n"),
                   s  |-> <<>>]

\* The end (a count of bytes) of the run of digits and "-" that starts at head.
NumberEnd(it, more) ==
    CHOOSE e \in it.head..Len(it.buf) :
        /\ \A j \in (it.head + 1)..e : it.buf[j] \in Digits \cup {"-"} \cup more
        /\ (e < Len(it.buf) => it.buf[e + 1] \notin Digits \cup {"-"} \cup more)

\* iter.ReadFloat64(), called on a number.
ReadFloat64(it) ==
    LET e == NumberEnd(it, {"."})
    IN  [it |-> [it EXCEPT !.head = e], f |-> ParseDecimal(SubSeq(it.buf, it.head + 1, e))]

\* iter.ReadInt64(), called on a number: the digits; an error and 0 beyond
\* int64, and an error if a fraction follows the digits.
ReadInt64(it) ==
    LET e    == NumberEnd(it, {})
        text == SubSeq(it.buf, it.head + 1, e)
        stop == [it EXCEPT !.head = e]
        r    == ParseInt(text)
    IN  IF ~r.ok
        THEN [it |-> ReportError(stop, "ReadInt64", "overflow"), n |-> int64Zero]
        ELSE [it |-> IF e < Len(it.buf) /\ it.buf[e + 1] = "."
                     THEN ReportError(stop, "assertInteger", "can not decode float as int")
                     ELSE stop,
              n  |-> r.n]

\* iter.SkipAndReturnBytes(): a copy of the bytes of the value skipped.
SkipAndReturnBytes(it) ==
    [it |-> Skip(it), bytes |-> SubSeq(it.buf, it.head + 1, Skip(it).head)]

\* iter.ResetBytes(input)
ResetBytes(it, input) == [it EXCEPT !.buf = input, !.head = 0]

\* A jsoniter.Stream: what was written, in order.
WriteNil(stream) == Append(stream, [kind |-> "null"])
WriteFloat64(stream, f) == Append(stream, [kind |-> "float64", f |-> f])
WriteInt64(stream, n) == Append(stream, [kind |-> "int64", text |-> int64Digits(n)])
WriteString(stream, text) == Append(stream, [kind |-> "string", text |-> text])

(***************************************************************************)
(* The codecs: values of the Go types that implement TimeEncoder and       *)
(* TimeDecoder                                                             *)
(***************************************************************************)

\* A nil TimeEncoder or TimeDecoder.
NilCodec == [type |-> "nil"]

UnixSecondsCodec == [type |-> "unixSecondsCodec"]
UnixMillisecondsCodec == [type |-> "unixMillisecondsCodec"]
LayoutCodec(layout) == [type |-> "layoutCodec", layout |-> layout]
StdCodec == [type |-> "stdCodec"]

resolveEncoder(enc) ==
    IF enc = NilCodec THEN NilCodec
    ELSE IF enc.type = "joinCodec" THEN enc.encode
    ELSE enc

resolveDecoder(dec) ==
    IF dec = NilCodec THEN NilCodec
    ELSE IF dec.type = "joinCodec" THEN dec.decode
    ELSE dec

Split(codec) == <<resolveDecoder(codec), resolveEncoder(codec)>>

Join_NoUnwrap(decode, encode) ==
    [type |-> "joinCodec", encode |-> encode, decode |-> decode]

Join(decode, encode) ==
    LET d == IF decode.type = "joinCodec" THEN decode.decode ELSE decode
        e == IF encode.type = "joinCodec" THEN encode.encode ELSE encode
    IN  [type |-> "joinCodec", encode |-> resolveEncoder(e), decode |-> resolveDecoder(d)]

EncodeIn_Stack(loc, enc) ==
    [type |-> "locEncoder", encode |-> resolveEncoder(enc), loc |-> loc]

EncodeIn(loc, enc) ==
    LET e1 == resolveEncoder(enc)
        e2 == IF e1.type = "locEncoder" THEN resolveEncoder(e1.encode) ELSE e1
    IN  [type |-> "locEncoder", encode |-> resolveEncoder(e2), loc |-> loc]

DecodeIn(loc, dec) ==
    LET d1 == resolveDecoder(dec)
        d2 == IF d1.type = "locDecoder" THEN resolveDecoder(d1.decode) ELSE d1
    IN  [type |-> "locDecoder", decode |-> d2, loc |-> loc]

In(loc, codec) ==
    [type |-> "joinCodec", encode |-> EncodeIn(loc, codec), decode |-> DecodeIn(loc, codec)]

TryDecoders(dec, fallback) == [type |-> "tryDecoder", decoders |-> <<dec>> \o fallback]

\* tm.Truncate(time.Microsecond)
TruncateMicrosecond(tm) == [tm EXCEPT !.nsec = 1000 * (tm.nsec \div 1000)]

unixSecondsCodecEncodeTime(tm, stream) ==
    IF IsZero(tm) THEN WriteNil(stream)
    ELSE WriteFloat64(stream, DurationSeconds(UnixNano(TruncateMicrosecond(tm))))

unixMillisecondsCodecEncodeTime(tm, stream) ==
    IF IsZero(tm) THEN WriteNil(stream)
    ELSE WriteInt64(stream, int64Quo(int64Quo(UnixNano(tm), 1000), 1000))

layoutCodecEncodeTime(layout, tm, stream) ==
    WriteString(stream, timeFormat(tm, layout))

stdCodecEncodeTime(tm, stream) ==
    WriteString(stream, timeFormat(tm, LayoutRFC3339Nano))

RECURSIVE EncodeTime(_, _, _)
\* enc.EncodeTime(tm, stream), by the dynamic type of enc.
EncodeTime(enc, tm, stream) ==
    CASE enc.type = "unixSecondsCodec" -> unixSecondsCodecEncodeTime(tm, stream)
      [] enc.type = "unixMillisecondsCodec" -> unixMillisecondsCodecEncodeTime(tm, stream)
      [] enc.type = "layoutCodec" -> layoutCodecEncodeTime(enc.layout, tm, stream)
      [] enc.type = "stdCodec" -> stdCodecEncodeTime(tm, stream)
      [] enc.type = "joinCodec" -> EncodeTime(enc.encode, tm, stream)
      [] enc.type = "locEncoder" -> EncodeTime(enc.encode, TimeIn(tm, enc.loc), stream)

unixSecondsCodecDecodeTime(it) ==
    CASE WhatIsNext(it) = "NumberValue" ->
             LET r == ReadFloat64(it) IN [tm |-> UnixSeconds(r.f), it |-> r.it]
      [] WhatIsNext(it) = "NilValue" -> [tm |-> ZeroTime, it |-> ReadNil(it)]
      [] WhatIsNext(it) = "StringValue" ->
             LET r == ReadString(it)
                 f == ParseFloat(r.s)
             IN  IF r.s = <<>> THEN [tm |-> ZeroTime, it |-> r.it]
                 ELSE IF ~f.ok
                 THEN [tm |-> ZeroTime, it |-> ReportError(r.it, "ReadUnixSeconds", "invalid syntax")]
                 ELSE [tm |-> UnixSeconds(f), it |-> r.it]
      [] OTHER -> [tm |-> ZeroTime,
                   it |-> ReportError(Skip(it), "ReadUnixSeconds", "invalid JSON value")]

unixMillisecondsCodecDecodeTime(it) ==
    CASE WhatIsNext(it) = "NumberValue" ->
             LET r == ReadInt64(it) IN [tm |-> UnixMilliseconds(r.n), it |-> r.it]
      [] WhatIsNext(it) = "NilValue" -> [tm |-> ZeroTime, it |-> ReadNil(it)]
      [] WhatIsNext(it) = "StringValue" ->
             LET r == ReadString(it)
                 n == ParseInt(r.s)
             IN  IF r.s = <<>> THEN [tm |-> ZeroTime, it |-> r.it]
                 ELSE IF ~n.ok
                 THEN [tm |-> ZeroTime, it |-> ReportError(r.it, "ReadUnixMilliseconds", "invalid syntax")]
                 ELSE [tm |-> UnixMilliseconds(n.n), it |-> r.it]
      [] OTHER -> [tm |-> ZeroTime,
                   it |-> ReportError(Skip(it), "ReadUnixMilliseconds", "invalid JSON value")]

layoutCodecDecodeTime(layout, it) ==
    CASE WhatIsNext(it) = "StringValue" ->
             LET r == ReadString(it)
                 p == timeParse(layout, r.s)
             IN  IF r.s = <<>> THEN [tm |-> ZeroTime, it |-> r.it]
                 ELSE [tm |-> p.tm,
                       it |-> IF p.err # "" THEN ReportError(r.it, "DecodeTime", p.err) ELSE r.it]
      [] WhatIsNext(it) = "NilValue" -> [tm |-> ZeroTime, it |-> ReadNil(it)]
      [] OTHER -> [tm |-> ZeroTime,
                   it |-> ReportError(Skip(it), "DecodeTime", "invalid JSON value")]

stdCodecDecodeTime(it) ==
    LET r == ReadString(it)
        p == timeParse(LayoutRFC3339, r.s)
    IN  [tm |-> p.tm,
         it |-> IF p.err # "" THEN ReportError(r.it, "DecodeTime", p.err) ELSE r.it]

(***************************************************************************)
(* The iterator pool and tryDecoder                                        *)
(***************************************************************************)

\* pool.BorrowIterator(data) on the iterator the pool hands out.
BorrowIterator(parked, data) == ResetBytes(parked, data)

\* pool.ReturnIterator(it): the iterator as it is parked.
ReturnIterator(it) == [it EXCEPT !.Error = NoError]

tryReset_KeepError(c, raw, i) == IF i # 0 THEN ResetBytes(c, raw) ELSE c

\* The head of the loop body of tryDecoder.DecodeTime (i counts from 0).
tryReset(c, raw, i) ==
    IF i # 0 THEN [ResetBytes(c, raw) EXCEPT !.Error = NoError] ELSE c

RECURSIVE DecodeTime(_, _)
RECURSIVE tryLoop(_, _, _, _)

\* The loop of tryDecoder.DecodeTime from index i on: whether a decoder
\* succeeded, its timestamp, and the scratch iterator at the end.
tryLoop(decs, i, c, raw) ==
    IF i >= Len(decs) THEN [ok |-> FALSE, tm |-> ZeroTime, child |-> c]
    ELSE LET r == DecodeTime(decs[i + 1], tryReset(c, raw, i))
         IN  IF r.it.Error = NoError
             THEN [ok |-> TRUE, tm |-> r.tm, child |-> r.it]
             ELSE tryLoop(decs, i + 1, r.it, raw)

\* tryDecoder.DecodeTime as a function: the scratch iterator is one the pool
\* hands out, clean as ReturnIterator and the pool's constructor leave it.
tryDecoderDecodeTime(decs, it) ==
    LET s == SkipAndReturnBytes(it)
        l == tryLoop(decs, 0, BorrowIterator(NewIterator(<<>>), s.bytes), s.bytes)
    IN  IF l.ok THEN [tm |-> l.tm, it |-> s.it]
        ELSE [tm |-> ZeroTime, it |-> [s.it EXCEPT !.Error = l.child.Error]]

\* dec.DecodeTime(iter), by the dynamic type of dec: the timestamp returned
\* and the iterator afterwards.
DecodeTime(dec, it) ==
    CASE dec.type = "unixSecondsCodec" -> unixSecondsCodecDecodeTime(it)
      [] dec.type = "unixMillisecondsCodec" -> unixMillisecondsCodecDecodeTime(it)
      [] dec.type = "layoutCodec" -> layoutCodecDecodeTime(dec.layout, it)
      [] dec.type = "stdCodec" -> stdCodecDecodeTime(it)
      [] dec.type = "joinCodec" -> DecodeTime(dec.decode, it)
      [] dec.type = "locDecoder" ->
             LET r == DecodeTime(dec.decode, it) IN [tm |-> TimeIn(r.tm, dec.loc), it |-> r.it]
      [] dec.type = "tryDecoder" -> tryDecoderDecodeTime(dec.decoders, it)

(***************************************************************************)
(* Inputs                                                                  *)
(***************************************************************************)

Quote(str) == <<"\"">> \o str \o <<"\"">>

JNull == <<"n", "u", "l", "l">>
JTrue == <<"t", "r", "u", "e">>
JFalse == <<"f", "a", "l", "s", "e">>
JNum5 == <<"5">>
JStrEmpty == Quote(<<>>)
JArr == <<"[", "5", "]">>
JObj == <<"{", "}">>

\* The raw JSON values decoded: each a well-formed JSON value. The numbers are
\* in the range where neither int64(sec*1e6)*1000 nor n*1e6 overflows int64.
JSONNumbers == {JNum5, StrSec, StrFrac}
JSONStrings == {JStrEmpty, Quote(StrSec), Quote(StrFrac), Quote(StrTime), Quote(StrZero),
                Quote(StrBad), Quote(<<"x">>)}
JSONValues == {JNull, JTrue, JFalse, JArr, JObj} \cup JSONNumbers \cup JSONStrings

Locations == {"UTC", "EST"}

\* The value decoded alone in the bytes of the caller's iterator.
Alone == [pre |-> <<>>, post |-> <<>>]

\* The value among other bytes: as the first element of an array, as the
\* value of a field of an object.
Contexts ==
    {[pre |-> <<"[">>, post |-> <<",", "5", "]">>],
     [pre |-> <<"{", "\"", "t", "\"", ":">>, post |-> <<"}">>]}

\* The caller's iterator at a value in a context.
IteratorAt(ctx, json) ==
    [NewIterator(ctx.pre \o json \o ctx.post) EXCEPT !.head = Len(ctx.pre)]

NoCallerIn == [it |-> NewIterator(<<>>), value |-> <<>>]

\* The decimal digit d followed by k zeros.
Num(d, k) == <<d>> \o [i \in 1..k |-> "0"]

Str1577836800000 == StrSec \o <<"0", "0", "0">>
Str9223372036854 == <<"9", "2", "2", "3", "3", "7", "2", "0", "3", "6", "8", "5", "4">>
Str9223372036855 == <<"9", "2", "2", "3", "3", "7", "2", "0", "3", "6", "8", "5", "5">>
StrMaxInt64 == Str9223372036854 \o <<"7", "7", "5", "8", "0", "7">>

\* The counts of milliseconds decoded, as texts: integers of int64, up to
\* math.MaxInt64 and down to -math.MaxInt64, around the largest count whose
\* nanoseconds are within int64.
MillisTexts ==
    LET pos == {Num(d, k) : d \in {"1", "5", "9"}, k \in 0..18}
                 \cup {<<"0">>, Str1577836800000, SubSeq(Str1577836800000, 1, 10) \o <<"1", "2", "3">>,
                       <<"9", "9", "9">>, <<"1", "0", "0", "1">>,
                       <<"8", "6", "4">> \o Num("0", 4), <<"8", "6", "3", "9", "9", "9", "9", "9">>,
                       Str9223372036854, Str9223372036855, StrMaxInt64}
    IN  pos \cup {<<"-">> \o t : t \in pos \ {<<"0">>}}

\* The counts of seconds decoded, as texts: those whose float64 and whose
\* product with 1e6 are exact or cut to the same microsecond as the decimal
\* number, and within int64 as microseconds.
SecondsTexts ==
    LET whole == {Num(d, k) : d \in {"1", "5", "9"}, k \in 0..10}
                   \cup {<<"0">>, StrSec, SubSeq(Str9223372036854, 1, 10),
                         SubSeq(Str9223372036854, 1, 9) \o <<"7">>}
        frac  == {<<>>, <<".", "5">>, <<".", "2", "5">>, <<".", "0", "0", "0", "0", "7", "5">>,
                  <<".", "0", "0", "0", "0", "0", "2", "5">>}
        pos   == {w \o f : w \in whole, f \in frac}
                   \ {w \o f : w \in {v \in whole : Len(v) > 9 /\ v # StrSec},
                                f \in {g \in frac : Len(g) > 3}}
    IN  pos \cup {<<"-">> \o t : t \in pos \ {<<"0">>, <<"0", ".", "0", "0", "0", "0", "0", "0", "2", "5">>}}

\* The timestamps encoded.
Times ==
    {TimeIn(ZeroTime, l) : l \in Locations}
        \cup {TimeIn([Time2020 EXCEPT !.nsec = n], l) : n \in {0, 500000000, 123456789}, l \in Locations}

BaseCodecs ==
    {UnixSecondsCodec, UnixMillisecondsCodec, LayoutCodec(LayoutRFC3339), LayoutCodec(LayoutBad),
     StdCodec}

\* The encoders: the base codecs and what Join, In and EncodeIn make of them.
Encoders ==
    LET one == BaseCodecs
                 \cup {EncodeIn(l, c) : l \in Locations, c \in BaseCodecs}
                 \cup {In(l, c) : l \in Locations, c \in BaseCodecs}
                 \cup {Join(d, e) : d \in BaseCodecs, e \in BaseCodecs}
    IN  one \cup {EncodeIn(l, c) : l \in Locations, c \in one}

\* The decoders: the base codecs and what Join, DecodeIn and TryDecoders make
\* of them.
Decoders ==
    LET one == BaseCodecs
                 \cup {DecodeIn(l, c) : l \in Locations, c \in BaseCodecs}
                 \cup {Join(d, e) : d \in BaseCodecs, e \in BaseCodecs}
    IN  one \cup {TryDecoders(a, <<>>) : a \in one}
            \cup {TryDecoders(a, <<b>>) : a \in BaseCodecs, b \in one}

\* The decoders a fallback chain is made of, and the chains.
ChainDecoders ==
    BaseCodecs \cup {DecodeIn("EST", UnixSecondsCodec),
                     TryDecoders(LayoutCodec(LayoutBad), <<UnixMillisecondsCodec>>)}

Chains ==
    {<<a>> : a \in ChainDecoders}
        \cup {<<a, b>> : a \in ChainDecoders, b \in ChainDecoders}
        \cup {<<a, b, c>> : a \in BaseCodecs, b \in BaseCodecs, c \in BaseCodecs}

\* The chains called on a value among other bytes: of one decoder or of two.
ChainsIn == {decs \in Chains : Len(decs) <= 2}

Acct12 == <<"1", "2", "3", "4", "5", "6", "7", "8", "9", "0", "1", "2">>
InstOK == <<"i", "-", "0", "a">>
ArnHead == <<"a", "r", "n", ":", "a", "w", "s", ":", "e", "c", "2", ":", "r", ":">>
ResInstance == <<"i", "n", "s", "t", "a", "n", "c", "e", "/">>
NotAnArn == <<"n", "o", "t", "-", "a", "n", "-", "a", "r", "n">>

\* An ARN of the given account and resource.
Arn(acct, res) == ArnHead \o acct \o <<":">> \o res

\* s with the character at position p replaced by c.
Subst(str, p, c) == [str EXCEPT ![p] = c]

\* The values given to the row's operations.
RowInputs ==
    {Acct12, Subst(Acct12, 12, "x"), InstOK, <<"x", "-", "i", "-">>,
     Arn(Acct12, ResInstance \o InstOK)}

ValueLists ==
    {<<>>} \cup {<<a>> : a \in RowInputs} \cup {<<a, b>> : a \in RowInputs, b \in RowInputs}

PtrInputs == {NilPtr} \cup {Ptr(a) : a \in RowInputs}

PtrLists ==
    {<<>>} \cup {<<a>> : a \in PtrInputs} \cup {<<a, b>> : a \in PtrInputs, b \in PtrInputs}

\* The strings given to a scanner called on its own.
ScanInputs ==
    LET short == {<<>>} \cup {<<a>> : a \in {"i", "-", "x"}}
                   \cup {<<a, b>> : a \in {"i", "-", "x", "I"}, b \in {"i", "-", "x", "_"}}
        ids   == {<<"i", "-">> \o t : t \in short} \cup {t \o <<"i", "-">> : t \in short}
                   \cup {InstOK, <<"i">> \o InstOK, <<"i", "-">> \o Acct12}
        accts == {Acct12, [i \in 1..12 |-> "0"], [i \in 1..6 |-> "U0663"], [i \in 1..12 |-> "U0663"],
                  SubSeq(Acct12, 1, 11), Acct12 \o <<"3">>, Acct12 \o <<"\n">>, <<" ">> \o Acct12}
                   \cup {Subst(Acct12, p, c) : p \in 1..12, c \in {"x", "-", " ", "U0663"}}
        res   == {<<>>, ResInstance, ResInstance \o InstOK, ResInstance \o <<"i">>,
                  ResInstance \o <<"i", "-">>, ResInstance \o <<"x">> \o InstOK,
                  ResInstance \o <<"a", "/">> \o InstOK, ResInstance \o InstOK \o <<"/">>,
                  <<"v", "o", "l", "/">> \o InstOK, <<"a", ":", "b">>,
                  ResInstance \o <<"i", "-", "/", "x">>, ResInstance \o <<"/">>,
                  ResInstance \o <<"U0663">>, <<"i", "n", "s", "t", "a", "n", "c", "e">>,
                  <<"x">> \o ResInstance \o InstOK, ResInstance \o <<"i", "-", ":", "/", "i", "-">>}
        arns  == {Arn(a, r) : a \in {Acct12, SubSeq(Acct12, 1, 11), <<>>}, r \in res}
                   \cup {Tail(Arn(Acct12, ResInstance \o InstOK)),
                         SubSeq(ArnHead, 1, 12) \o Acct12, ArnHead, NotAnArn,
                         <<"A", "R", "N">> \o Tail(Tail(Tail(Arn(Acct12, ResInstance \o InstOK)))),
                         <<"a", "r", "n">>, <<"a", "r", "n", ":">>, <<"a", "r", "n", ":", ":", ":", ":">>,
                         <<"a", "r", "n", ":", ":", ":", ":", ":">>}
    IN  short \cup ids \cup accts \cup arns

(***************************************************************************)
(* State machine                                                           *)
(***************************************************************************)

\* The most values a row holds over its four collections.
MaxRowItems == 2

\* The most iterators parked in the pool.
MaxPool == 1

NoCall == [op |-> "none"]

(***************************************************************************)
(* mage: destroyCfnStacks                                                  *)
(***************************************************************************)

\* The stacks deleted in parallel, by the names of their cfnstacks constants.
parallelStacks ==
    <<"Appsync", "Cloudsec", "Core", "Dashboard", "Frontend", "LogAnalysis", "Onboard">>

Gateway == "Gateway"

Bootstrap == "Bootstrap"

AllStacks == {parallelStacks[i] : i \in 1..Len(parallelStacks)} \cup {Gateway, Bootstrap}

\* The states of a deleteFunc goroutine: not started; in deleteStack; blocked
\* on the send of its result, without or with an error; gone, its result
\* received.
GoStates == {"none", "deleting", "deleted", "failed", "sent"}

\* One result fewer than there are parallel stacks.
parallelWaits_OneFewer == Len(parallelStacks) - 1

\* The results the first loop waits for: i < len(parallelStacks).
parallelWaits == Len(parallelStacks)

\* The results counted, the errors never.
handleResult_NoErrCount(counts, err) ==
    [finishCount |-> counts.finishCount + 1, errCount |-> counts.errCount]

\* handleResult(result): the counters after it.
handleResult(counts, err) ==
    [finishCount |-> counts.finishCount + 1,
     errCount    |-> IF err THEN counts.errCount + 1 ELSE counts.errCount]

tryVars == <<pc, decoders, iter, rawJSON, child, idx, ret, pool, borrowed, attempts, callerIn>>

codecVars == <<tdec, tenc, codecOp>>

initVars == <<initStep, fieldRegistry, scannerRegistry, fatal, regLog>>

cfnVars == <<cfnPc, cfnI, stacks, finishCount, errCount, cfnErr, masterStack, outcome, received>>

\* What the operations on rows, the single calls and tryDecoder leave alone.
restVars == <<codecVars, initVars, cfnVars>>

Init ==
    /\ row = NewAWSPantherLog
    /\ call = NoCall
    /\ pc = "idle"
    /\ decoders = <<>>
    /\ iter = NewIterator(<<>>)
    /\ rawJSON = <<>>
    /\ child = NewIterator(<<>>)
    /\ idx = 0
    /\ ret = ZeroTime
    /\ pool = <<>>
    /\ borrowed = 0
    /\ attempts = <<>>
    /\ callerIn = NoCallerIn
    /\ tdec = NilCodec
    /\ tenc = NilCodec
    /\ codecOp = NoCall
    /\ initStep = 0
    /\ fieldRegistry = <<>>
    /\ scannerRegistry = <<>>
    /\ fatal = ""
    /\ regLog = <<>>
    /\ cfnPc = "idle"
    /\ cfnI = 0
    /\ stacks = [s \in AllStacks |-> "none"]
    /\ finishCount = 0
    /\ errCount = 0
    /\ cfnErr = "none"
    /\ masterStack = ""
    /\ outcome = [s \in AllStacks |-> "none"]
    /\ received = [s \in AllStacks |-> 0]

RECURSIVE SumLen(_, _)
SumLen(pl, fs) ==
    IF fs = {} THEN 0
    ELSE LET f == CHOOSE x \in fs : TRUE IN Len(pl[f].items) + SumLen(pl, fs \ {f})

\* Whether a row is within the bound on its size.
InBound(pl) == SumLen(pl, FieldIDs) <= MaxRowItems

DoAppendAnyAWSAccountIds ==
    /\ \E values \in ValueLists : row' = AppendAnyAWSAccountIds(row, values)
    /\ InBound(row')
    /\ UNCHANGED <<call, tryVars, restVars>>

DoAppendAnyAWSAccountIdPtrs ==
    /\ \E values \in PtrLists : row' = AppendAnyAWSAccountIdPtrs(row, values)
    /\ InBound(row')
    /\ UNCHANGED <<call, tryVars, restVars>>

DoAppendAnyAWSInstanceIds ==
    /\ \E values \in ValueLists : row' = AppendAnyAWSInstanceIds(row, values)
    /\ InBound(row')
    /\ UNCHANGED <<call, tryVars, restVars>>

DoAppendAnyAWSInstanceIdPtrs ==
    /\ \E values \in PtrLists : row' = AppendAnyAWSInstanceIdPtrs(row, values)
    /\ InBound(row')
    /\ UNCHANGED <<call, tryVars, restVars>>

DoAppendAnyAWSARNs ==
    /\ \E values \in ValueLists : row' = AppendAnyAWSARNs(row, values)
    /\ InBound(row')
    /\ UNCHANGED <<call, tryVars, restVars>>

DoAppendAnyAWSARNPtrs ==
    /\ \E values \in PtrLists : row' = AppendAnyAWSARNPtrs(row, values)
    /\ InBound(row')
    /\ UNCHANGED <<call, tryVars, restVars>>

DoAppendAnyAWSTags ==
    /\ \E values \in ValueLists : row' = AppendAnyAWSTags(row, values)
    /\ InBound(row')
    /\ UNCHANGED <<call, tryVars, restVars>>

DoAppendAnyAWSTagPtrs ==
    /\ \E values \in PtrLists : row' = AppendAnyAWSTagPtrs(row, values)
    /\ InBound(row')
    /\ UNCHANGED <<call, tryVars, restVars>>

\* The scanners, writing to the row.
DoScanAccountID ==
    /\ \E input \in RowInputs : row' = ScanAccountID(RowWriter(row), input).pl
    /\ InBound(row')
    /\ UNCHANGED <<call, tryVars, restVars>>

DoScanInstanceID ==
    /\ \E input \in RowInputs : row' = ScanInstanceID(RowWriter(row), input).pl
    /\ InBound(row')
    /\ UNCHANGED <<call, tryVars, restVars>>

DoScanARN ==
    /\ \E input \in RowInputs : row' = ScanARN(RowWriter(row), input).pl
    /\ InBound(row')
    /\ UNCHANGED <<call, tryVars, restVars>>

Next ==
    \/ DoAppendAnyAWSAccountIds
    \/ DoAppendAnyAWSAccountIdPtrs
    \/ DoAppendAnyAWSInstanceIds
    \/ DoAppendAnyAWSInstanceIdPtrs
    \/ DoAppendAnyAWSARNs
    \/ DoAppendAnyAWSARNPtrs
    \/ DoAppendAnyAWSTags
    \/ DoAppendAnyAWSTagPtrs
    \/ DoScanAccountID
    \/ DoScanInstanceID
    \/ DoScanARN

\* The operations on a row, in any order.
Spec == Init /\ [][Next]_vars

\* One call of a codec or of a scanner, on its own, from the initial state.
CallEncodeTime ==
    /\ call = NoCall
    /\ \E enc \in Encoders, tm \in Times :
          call' = [op |-> "EncodeTime", enc |-> enc, tm |-> tm, stream |-> EncodeTime(enc, tm, <<>>)]
    /\ UNCHANGED <<row, tryVars, restVars>>

CallDecodeTime ==
    /\ call = NoCall
    /\ \E dec \in Decoders, json \in JSONValues :
          LET r == DecodeTime(dec, NewIterator(json))
          IN  call' = [op |-> "DecodeTime", dec |-> dec, json |-> json, tm |-> r.tm, it |-> r.it]
    /\ UNCHANGED <<row, tryVars, restVars>>

CallScanAccountID ==
    /\ call = NoCall
    /\ \E input \in ScanInputs :
          call' = [op |-> "ScanAccountID", input |-> input, w |-> ScanAccountID(RecWriter, input)]
    /\ UNCHANGED <<row, tryVars, restVars>>

CallScanInstanceID ==
    /\ call = NoCall
    /\ \E input \in ScanInputs :
          call' = [op |-> "ScanInstanceID", input |-> input, w |-> ScanInstanceID(RecWriter, input)]
    /\ UNCHANGED <<row, tryVars, restVars>>

CallScanARN ==
    /\ call = NoCall
    /\ \E input \in ScanInputs :
          call' = [op |-> "ScanARN", input |-> input, w |-> ScanARN(RecWriter, input)]
    /\ UNCHANGED <<row, tryVars, restVars>>

NextCalls ==
    \/ CallEncodeTime
    \/ CallDecodeTime
    \/ CallScanAccountID
    \/ CallScanInstanceID
    \/ CallScanARN

\* The codecs and the scanners as functions of their inputs.
SpecCalls == Init /\ [][NextCalls]_vars

\* tryDecoder.DecodeTime up to the loop: the value is skipped on the caller's
\* iterator and a scratch iterator borrowed, one parked in the pool or a new one.
tryStart(chains, contexts) ==
    /\ pc = "idle"
    /\ \E decs \in chains, json \in JSONValues, ctx \in contexts, fresh \in BOOLEAN :
          LET s == SkipAndReturnBytes(IteratorAt(ctx, json))
          IN  /\ decoders' = decs
              /\ callerIn' = [it |-> IteratorAt(ctx, json), value |-> json]
              /\ iter' = s.it
              /\ rawJSON' = s.bytes
              /\ IF fresh
                 THEN /\ pool = <<>> \/ Len(pool) < MaxPool
                      /\ child' = BorrowIterator(NewIterator(<<>>), s.bytes)
                      /\ pool' = pool
                 ELSE /\ pool # <<>>
                      /\ child' = BorrowIterator(Head(pool), s.bytes)
                      /\ pool' = Tail(pool)
    /\ borrowed' = borrowed + 1
    /\ idx' = 0
    /\ attempts' = <<>>
    /\ pc' = "loop"
    /\ UNCHANGED restVars
    /\ UNCHANGED <<row, call, ret>>

\* The call on an iterator that holds the value and nothing else.
TryStart == tryStart(Chains, {Alone})

\* The call on an iterator that holds the value among other bytes.
TryStartIn == tryStart(ChainsIn, Contexts)

\* What the loop does with a decoder's result: [done, returned], done when
\* DecodeTime returns from inside the loop, returned when the scratch iterator
\* was given back first.
tryOnResult_NoReturn(err) == [done |-> err = NoError, returned |-> FALSE]

tryOnResult_GoOn(err) == [done |-> FALSE, returned |-> FALSE]

tryOnResult(err) == [done |-> err = NoError, returned |-> err = NoError]

\* One iteration of the loop of tryDecoder.DecodeTime.
TryAttempt ==
    /\ pc = "loop"
    /\ idx < Len(decoders)
    /\ LET start == tryReset(child, rawJSON, idx)
           r     == DecodeTime(decoders[idx + 1], start)
           o     == tryOnResult(r.it.Error)
       IN  /\ attempts' = Append(attempts, [i |-> idx, dec |-> decoders[idx + 1], start |-> start,
                                         end |-> r.it, tm |-> r.tm])
           /\ child' = r.it
           /\ IF o.returned
              THEN pool' = Append(pool, ReturnIterator(r.it)) /\ borrowed' = borrowed - 1
              ELSE UNCHANGED <<pool, borrowed>>
           /\ IF o.done
              THEN ret' = r.tm /\ pc' = "done" /\ idx' = idx
              ELSE ret' = ret /\ pc' = "loop" /\ idx' = idx + 1
    /\ UNCHANGED restVars
    /\ UNCHANGED <<row, call, decoders, iter, rawJSON, callerIn>>

\* The error the caller's iterator is left with after the loop.
tryLastError_First(c, atts) == IF atts = <<>> THEN c.Error ELSE atts[1].end.Error

tryLastError(c, atts) == c.Error

\* tryDecoder.DecodeTime after the loop: every decoder failed.
TryExhausted ==
    /\ pc = "loop"
    /\ idx >= Len(decoders)
    /\ iter' = [iter EXCEPT !.Error = tryLastError(child, attempts)]
    /\ pool' = Append(pool, ReturnIterator(child))
    /\ borrowed' = borrowed - 1
    /\ ret' = ZeroTime
    /\ pc' = "done"
    /\ UNCHANGED restVars
    /\ UNCHANGED <<row, call, decoders, rawJSON, child, idx, attempts, callerIn>>

\* The caller goes on; the pool stays as it is.
TryReturn ==
    /\ pc = "done"
    /\ pc' = "idle"
    /\ decoders' = <<>>
    /\ iter' = NewIterator(<<>>)
    /\ rawJSON' = <<>>
    /\ child' = NewIterator(<<>>)
    /\ idx' = 0
    /\ ret' = ZeroTime
    /\ attempts' = <<>>
    /\ callerIn' = NoCallerIn
    /\ UNCHANGED restVars
    /\ UNCHANGED <<row, call, pool, borrowed>>

\* sync.Pool drops what it holds at a garbage collection.
PoolDrop ==
    /\ pool # <<>>
    /\ pool' = <<>>
    /\ UNCHANGED restVars
    /\ UNCHANGED <<row, call, pc, decoders, iter, rawJSON, child, idx, ret, borrowed, attempts, callerIn>>

NextTry ==
    \/ TryStart
    \/ TryAttempt
    \/ TryExhausted
    \/ TryReturn
    \/ PoolDrop

\* Calls of tryDecoder.DecodeTime, one after the other, on one pool.
SpecTry == Init /\ [][NextTry]_vars

NextTryIn ==
    \/ TryStartIn
    \/ TryAttempt
    \/ TryExhausted
    \/ TryReturn
    \/ PoolDrop

\* The same calls, the value where a caller's iterator finds it: in an array,
\* in an object.
SpecTryIn == Init /\ [][NextTryIn]_vars

\* A count of milliseconds is decoded by the epoch-millis codec, from a JSON
\* number or from a JSON string, and the timestamp encoded by it.
CallMillisRoundTrip ==
    /\ call = NoCall
    /\ \E text \in MillisTexts : \E json \in {text, Quote(text)} :
          LET r == DecodeTime(UnixMillisecondsCodec, NewIterator(json))
          IN  call' = [op |-> "MillisRoundTrip", text |-> text, json |-> json, tm |-> r.tm,
                       it |-> r.it, stream |-> EncodeTime(UnixMillisecondsCodec, r.tm, <<>>)]
    /\ UNCHANGED <<row, tryVars, restVars>>

\* The same with a count of seconds and the epoch-seconds codec.
CallSecondsRoundTrip ==
    /\ call = NoCall
    /\ \E text \in SecondsTexts : \E json \in {text, Quote(text)} :
          LET r == DecodeTime(UnixSecondsCodec, NewIterator(json))
          IN  call' = [op |-> "SecondsRoundTrip", text |-> text, json |-> json, tm |-> r.tm,
                       it |-> r.it, stream |-> EncodeTime(UnixSecondsCodec, r.tm, <<>>)]
    /\ UNCHANGED <<row, tryVars, restVars>>

NextEpoch ==
    \/ CallMillisRoundTrip
    \/ CallSecondsRoundTrip

\* The epoch codecs on counts of every magnitude of int64.
SpecEpoch == Init /\ [][NextEpoch]_vars

\* The codecs the combinators start from.
CodecBases == {UnixSecondsCodec, LayoutCodec(LayoutRFC3339), StdCodec}

\* Whether a value is a TimeCodec: an encoder and a decoder both.
IsTimeCodec(c) ==
    c.type \in {"unixSecondsCodec", "unixMillisecondsCodec", "layoutCodec", "stdCodec", "joinCodec"}

\* A codec is made; it is a decoder and an encoder.
CodecNew ==
    /\ \E c \in CodecBases :
          /\ tdec' = c
          /\ tenc' = c
          /\ codecOp' = [op |-> "new", loc |-> "", dec |-> tdec, enc |-> tenc]
    /\ UNCHANGED <<initVars, cfnVars>>
    /\ UNCHANGED <<row, call, tryVars>>

CodecJoin ==
    /\ tdec # NilCodec
    /\ tenc # NilCodec
    /\ tdec' = Join(tdec, tenc)
    /\ tenc' = Join(tdec, tenc)
    /\ codecOp' = [op |-> "Join", loc |-> "", dec |-> tdec, enc |-> tenc]
    /\ UNCHANGED <<initVars, cfnVars>>
    /\ UNCHANGED <<row, call, tryVars>>

CodecSplit ==
    /\ \E codec \in {tdec, tenc} :
          /\ IsTimeCodec(codec)
          /\ tdec' = Split(codec)[1]
          /\ tenc' = Split(codec)[2]
    /\ codecOp' = [op |-> "Split", loc |-> "", dec |-> tdec, enc |-> tenc]
    /\ UNCHANGED <<initVars, cfnVars>>
    /\ UNCHANGED <<row, call, tryVars>>

CodecIn ==
    /\ \E loc \in Locations, codec \in {tdec, tenc} :
          /\ IsTimeCodec(codec)
          /\ tdec' = In(loc, codec)
          /\ tenc' = In(loc, codec)
          /\ codecOp' = [op |-> "In", loc |-> loc, dec |-> codec, enc |-> codec]
    /\ UNCHANGED <<initVars, cfnVars>>
    /\ UNCHANGED <<row, call, tryVars>>

CodecEncodeIn ==
    /\ tenc # NilCodec
    /\ \E loc \in Locations :
          /\ tenc' = EncodeIn(loc, tenc)
          /\ codecOp' = [op |-> "EncodeIn", loc |-> loc, dec |-> tdec, enc |-> tenc]
    /\ UNCHANGED <<initVars, cfnVars>>
    /\ UNCHANGED <<row, call, tryVars, tdec>>

CodecDecodeIn ==
    /\ tdec # NilCodec
    /\ \E loc \in Locations :
          /\ tdec' = DecodeIn(loc, tdec)
          /\ codecOp' = [op |-> "DecodeIn", loc |-> loc, dec |-> tdec, enc |-> tenc]
    /\ UNCHANGED <<initVars, cfnVars>>
    /\ UNCHANGED <<row, call, tryVars, tenc>>

NextCodec ==
    \/ CodecNew
    \/ CodecJoin
    \/ CodecSplit
    \/ CodecIn
    \/ CodecEncodeIn
    \/ CodecDecodeIn

\* Join, Split, In, EncodeIn and DecodeIn applied in any order.
SpecCodec == Init /\ [][NextCodec]_vars

(***************************************************************************)
(* The registries of package pantherlog and awslogs.init                   *)
(***************************************************************************)

\* pantherlog.MustRegisterIndicator(id, meta) on the registries: the field
\* registry afterwards and the reason to halt, if any.
MustRegisterIndicator(fields, id, meta) ==
    IF id \in DOMAIN fields
    THEN [fields |-> fields, fatal |-> "duplicate field id"]
    ELSE IF meta.NameJSON = "" \/ meta.Name = "" \/ meta.Description = ""
    THEN [fields |-> fields, fatal |-> "invalid field metadata"]
    ELSE [fields |-> (id :> meta) @@ fields, fatal |-> ""]

\* pantherlog.MustRegisterScanner(name, scanner, fields...)
MustRegisterScanner(fields, scanners, name, scanner, ids) ==
    IF name \in DOMAIN scanners
    THEN [scanners |-> scanners, fatal |-> "duplicate scanner"]
    ELSE IF \E k \in 1..Len(ids) : ids[k] \notin DOMAIN fields
    THEN [scanners |-> scanners, fatal |-> "unknown output field"]
    ELSE [scanners |-> (name :> [scanner |-> scanner, fields |-> ids]) @@ scanners, fatal |-> ""]

RegisterIndicator(id, NameJSON, Name, Description) ==
    [kind |-> "field", key |-> id, fields |-> <<>>, scanner |-> "",
     meta |-> [NameJSON |-> NameJSON, Name |-> Name, Description |-> Description]]

RegisterScanner(name, scanner, ids) ==
    [kind |-> "scanner", key |-> name, fields |-> ids, scanner |-> scanner,
     meta |-> [NameJSON |-> "", Name |-> "", Description |-> ""]]

initCalls_ScannerFirst ==
    <<RegisterScanner("aws_arn", "ScanARN", <<FieldARN, FieldAccountID, FieldInstanceID>>),
      RegisterIndicator(FieldAccountID, "p_any_aws_account_ids", "PantherAnyAWSAccountIds",
                        "Panther added field with collection of AWS account ids associated with the row"),
      RegisterIndicator(FieldInstanceID, "p_any_aws_instance_ids", "PantherAnyAWSInstanceIds",
                        "Panther added field with collection of AWS instance ids associated with the row"),
      RegisterIndicator(FieldARN, "p_any_aws_arns", "PantherAnyAWSARNs",
                        "Panther added field with collection of AWS ARNs associated with the row"),
      RegisterIndicator(FieldTag, "p_any_aws_tags", "PantherAnyAWSTags",
                        "Panther added field with collection of AWS tags associated with the row"),
      RegisterScanner("aws_instance_id", "ScanInstanceID", <<FieldInstanceID>>),
      RegisterScanner("aws_tag", "FieldTag", <<FieldTag>>),
      RegisterScanner("aws_account_id", "ScanAccountID", <<FieldAccountID>>)>>

\* The calls of func init() of package awslogs, in order.
initCalls ==
    <<RegisterIndicator(FieldAccountID, "p_any_aws_account_ids", "PantherAnyAWSAccountIds",
                        "Panther added field with collection of AWS account ids associated with the row"),
      RegisterIndicator(FieldInstanceID, "p_any_aws_instance_ids", "PantherAnyAWSInstanceIds",
                        "Panther added field with collection of AWS instance ids associated with the row"),
      RegisterIndicator(FieldARN, "p_any_aws_arns", "PantherAnyAWSARNs",
                        "Panther added field with collection of AWS ARNs associated with the row"),
      RegisterIndicator(FieldTag, "p_any_aws_tags", "PantherAnyAWSTags",
                        "Panther added field with collection of AWS tags associated with the row"),
      RegisterScanner("aws_arn", "ScanARN", <<FieldARN, FieldAccountID, FieldInstanceID>>),
      RegisterScanner("aws_instance_id", "ScanInstanceID", <<FieldInstanceID>>),
      RegisterScanner("aws_tag", "FieldTag", <<FieldTag>>),
      RegisterScanner("aws_account_id", "ScanAccountID", <<FieldAccountID>>)>>

\* The registrations of the packages initialized before or after awslogs:
\* fields of other families, whose ids are in other ranges, and scanners of
\* other names.
OtherCalls ==
    {RegisterIndicator(id, "p_any_other", "PantherAnyOther", "a field of another family") :
         id \in {1, 2, 2000}}
        \cup {RegisterScanner("ip", "ScanIPAddress", <<1>>),
              RegisterScanner("hostname", "ScanHostname", <<1, 2>>)}

\* One registration on the registries.
Register(c) ==
    /\ regLog' = Append(regLog, c)
    /\ IF c.kind = "field"
       THEN LET r == MustRegisterIndicator(fieldRegistry, c.key, c.meta)
            IN  /\ fieldRegistry' = r.fields
                /\ fatal' = r.fatal
                /\ UNCHANGED scannerRegistry
       ELSE LET r == MustRegisterScanner(fieldRegistry, scannerRegistry, c.key, c.scanner, c.fields)
            IN  /\ scannerRegistry' = r.scanners
                /\ fatal' = r.fatal
                /\ UNCHANGED fieldRegistry

\* The next MustRegisterIndicator of awslogs.init.
InitRegisterIndicator ==
    /\ fatal = ""
    /\ initStep < Len(initCalls)
    /\ initCalls[initStep + 1].kind = "field"
    /\ Register(initCalls[initStep + 1])
    /\ initStep' = initStep + 1
    /\ UNCHANGED <<row, call, tryVars, codecVars, cfnVars>>

\* The next MustRegisterScanner of awslogs.init.
InitRegisterScanner ==
    /\ fatal = ""
    /\ initStep < Len(initCalls)
    /\ initCalls[initStep + 1].kind = "scanner"
    /\ Register(initCalls[initStep + 1])
    /\ initStep' = initStep + 1
    /\ UNCHANGED <<row, call, tryVars, codecVars, cfnVars>>

\* A registration of another package, whose init runs as a whole before or
\* after that of awslogs; each makes its registrations once, a scanner's
\* after those of its output fields.
OtherRegister ==
    /\ fatal = ""
    /\ initStep \in {0, Len(initCalls)}
    /\ \E c \in OtherCalls :
          /\ \A k \in 1..Len(regLog) : regLog[k] # c
          /\ \A i \in 1..Len(c.fields) : c.fields[i] \in DOMAIN fieldRegistry
          /\ Register(c)
    /\ UNCHANGED <<row, call, tryVars, codecVars, cfnVars, initStep>>

NextInit ==
    \/ InitRegisterIndicator
    \/ InitRegisterScanner
    \/ OtherRegister

\* The initialization of the program: awslogs.init among the inits of the
\* other packages.
SpecInit == Init /\ [][NextInit]_vars

\* destroyCfnStacks(masterStack) is called. With a master stack it deletes
\* that stack itself; without, it starts on the parallel stacks.
CfnCall ==
    /\ cfnPc = "idle"
    /\ \E name \in {"", "panther"} :
          /\ masterStack' = name
          /\ cfnPc' = IF name # "" THEN "master" ELSE "spawn"
    /\ cfnI' = 1
    /\ UNCHANGED <<stacks, finishCount, errCount, cfnErr, outcome, received>>
    /\ UNCHANGED <<row, call, tryVars, codecVars, initVars>>

\* return deleteStack(client, &masterStack)
CfnMasterDeleted ==
    /\ cfnPc = "master"
    /\ \E err \in {"nil", "error"} : cfnErr' = err
    /\ cfnPc' = "returned"
    /\ UNCHANGED <<cfnI, stacks, finishCount, errCount, masterStack, outcome, received>>
    /\ UNCHANGED <<row, call, tryVars, codecVars, initVars>>

\* go deleteFunc(client, stack, results): the goroutine of a stack starts and
\* is in deleteStack.
deleteFunc(stack) == [stacks EXCEPT ![stack] = "deleting"]

\* One turn of the loop over parallelStacks.
CfnSpawnParallel ==
    /\ cfnPc = "spawn"
    /\ stacks' = deleteFunc(parallelStacks[cfnI])
    /\ IF cfnI < Len(parallelStacks)
       THEN cfnI' = cfnI + 1 /\ cfnPc' = cfnPc
       ELSE cfnI' = 0 /\ cfnPc' = "wait"
    /\ UNCHANGED <<finishCount, errCount, cfnErr, masterStack, outcome, received>>
    /\ UNCHANGED <<row, call, tryVars, codecVars, initVars>>

\* deleteStack returns in a goroutine, with an error or without; the goroutine
\* is then at the send on results, which has no buffer.
CfnDeleteStackReturns ==
    /\ \E stack \in AllStacks :
          /\ stacks[stack] = "deleting"
          /\ \E state \in {"deleted", "failed"} :
                /\ stacks' = [stacks EXCEPT ![stack] = state]
                /\ outcome' = [outcome EXCEPT ![stack] = IF state = "failed" THEN "error" ELSE "nil"]
    /\ UNCHANGED <<cfnPc, cfnI, finishCount, errCount, cfnErr, masterStack, received>>
    /\ UNCHANGED <<row, call, tryVars, codecVars, initVars>>

\* Where the caller goes on after handleResult(<-results).
afterReceive(at, i) ==
    CASE at = "wait" ->
            IF i + 1 < parallelWaits THEN [pc |-> "wait", i |-> i + 1]
            ELSE [pc |-> "gateway", i |-> i + 1]
      [] at = "waitGateway" -> [pc |-> "bootstrap", i |-> i]
      [] at = "waitBootstrap" -> [pc |-> "return", i |-> i]

\* handleResult(<-results): the caller, at one of its receives, takes the
\* result of a goroutine that is at its send, and counts it.
CfnReceive ==
    /\ cfnPc \in {"wait", "waitGateway", "waitBootstrap"}
    /\ \E stack \in AllStacks :
          /\ stacks[stack] \in {"deleted", "failed"}
          /\ stacks' = [stacks EXCEPT ![stack] = "sent"]
          /\ received' = [received EXCEPT ![stack] = @ + 1]
          /\ LET counts == handleResult([finishCount |-> finishCount, errCount |-> errCount],
                                        stacks[stack] = "failed")
             IN  finishCount' = counts.finishCount /\ errCount' = counts.errCount
    /\ cfnPc' = afterReceive(cfnPc, cfnI).pc
    /\ cfnI' = afterReceive(cfnPc, cfnI).i
    /\ UNCHANGED <<cfnErr, masterStack, outcome>>
    /\ UNCHANGED <<row, call, tryVars, codecVars, initVars>>

\* go deleteFunc(client, cfnstacks.Gateway, results)
CfnSpawnGateway ==
    /\ cfnPc = "gateway"
    /\ stacks' = deleteFunc(Gateway)
    /\ cfnPc' = "waitGateway"
    /\ UNCHANGED <<cfnI, finishCount, errCount, cfnErr, masterStack, outcome, received>>
    /\ UNCHANGED <<row, call, tryVars, codecVars, initVars>>

\* go deleteFunc(client, cfnstacks.Bootstrap, results)
CfnSpawnBootstrap ==
    /\ cfnPc = "bootstrap"
    /\ stacks' = deleteFunc(Bootstrap)
    /\ cfnPc' = "waitBootstrap"
    /\ UNCHANGED <<cfnI, finishCount, errCount, cfnErr, masterStack, outcome, received>>
    /\ UNCHANGED <<row, call, tryVars, codecVars, initVars>>

\* The return: an error if a result carried one.
CfnReturn ==
    /\ cfnPc = "return"
    /\ cfnErr' = IF errCount > 0 THEN "error" ELSE "nil"
    /\ cfnPc' = "returned"
    /\ UNCHANGED <<cfnI, stacks, finishCount, errCount, masterStack, outcome, received>>
    /\ UNCHANGED <<row, call, tryVars, codecVars, initVars>>

NextCfn ==
    \/ CfnCall
    \/ CfnMasterDeleted
    \/ CfnSpawnParallel
    \/ CfnDeleteStackReturns
    \/ CfnReceive
    \/ CfnSpawnGateway
    \/ CfnSpawnBootstrap
    \/ CfnReturn

\* One call of destroyCfnStacks, its goroutines in every interleaving.
SpecCfn == Init /\ [][NextCfn]_vars

\* Every goroutine that can take a step takes it in the end, and every
\* deleteStack that was called returns.
FairCfn ==
    /\ WF_vars(CfnMasterDeleted)
    /\ WF_vars(CfnSpawnParallel)
    /\ WF_vars(CfnDeleteStackReturns)
    /\ WF_vars(CfnReceive)
    /\ WF_vars(CfnSpawnGateway)
    /\ WF_vars(CfnSpawnBootstrap)
    /\ WF_vars(CfnReturn)

\* The same call under a scheduler that lets every goroutine run.
SpecCfnFair == Init /\ [][NextCfn]_vars /\ FairCfn

(***************************************************************************)
(* Claims                                                                  *)
(***************************************************************************)

\* Exactly 12 ASCII digits.
IsTwelveAsciiDigits(v) == Len(v) = 12 /\ \A i \in 1..12 : v[i] \in {"0", "1", "2", "3", "4", "5", "6", "7", "8", "9"}

\* Starts with the two characters i and -.
StartsWithIDash(v) == Len(v) >= 2 /\ v[1] = "i" /\ v[2] = "-"

RowItems(f) == {row[f].items[i] : i \in 1..Len(row[f].items)}

\* C1: after any sequence of Append* operations and scanner invocations on a
\* row, every value of the account-id collection is exactly 12 ASCII digits
\* and every value of the instance-id collection starts with "i-".
C1_RowIdsValidated ==
    /\ \A v \in RowItems(FieldAccountID) : IsTwelveAsciiDigits(v)
    /\ \A v \in RowItems(FieldInstanceID) : StartsWithIDash(v)

\* C2: on every encoder, encoding the zero timestamp writes JSON null and
\* nothing else.
C2_ZeroEncodesNull ==
    (call.op = "EncodeTime" /\ IsZero(call.tm)) => call.stream = <<[kind |-> "null"]>>

\* C3: on every decoder, decoding a JSON null or an empty JSON string returns
\* the zero timestamp and leaves no error on the iterator.
C3_NullAndEmptyDecodeToZero ==
    (call.op = "DecodeTime" /\ call.json \in {JNull, JStrEmpty})
        => (IsZero(call.tm) /\ call.it.Error = NoError)

\* The kind of a raw JSON value.
KindOf(json) == WhatIsNext(NewIterator(json))

RECURSIVE AcceptsShape(_, _)
\* Whether a decoder accepts a kind of JSON value: strings and null on every
\* codec, numbers on the two epoch codecs; a wrapper accepts what it wraps,
\* a fallback chain what one of its decoders accepts.
AcceptsShape(dec, kind) ==
    CASE dec.type \in {"unixSecondsCodec", "unixMillisecondsCodec"} ->
             kind \in {"NumberValue", "StringValue", "NilValue"}
      [] dec.type \in {"layoutCodec", "stdCodec"} -> kind \in {"StringValue", "NilValue"}
      [] dec.type \in {"joinCodec", "locDecoder"} -> AcceptsShape(dec.decode, kind)
      [] dec.type = "tryDecoder" ->
             \E i \in 1..Len(dec.decoders) : AcceptsShape(dec.decoders[i], kind)

\* C8: a decode call on a JSON value of a shape the codec does not accept
\* consumes exactly that value and reports a decode error.
C8_UnacceptedShapeConsumedAndReported ==
    (call.op = "DecodeTime" /\ ~AcceptsShape(call.dec, KindOf(call.json)))
        => (call.it.head = Len(call.json) /\ call.it.Error # NoError)

\* C9: ScanAccountID writes its input once to the account-id field if the
\* input is exactly 12 ASCII digits, and writes nothing otherwise.
C9_ScanAccountIDWritesIffTwelveDigits ==
    call.op = "ScanAccountID"
        => call.w.calls = IF IsTwelveAsciiDigits(call.input)
                          THEN <<[id |-> FieldAccountID, values |-> <<call.input>>]>>
                          ELSE <<>>

C9_Witness ==
    /\ call.op = "ScanAccountID"
    /\ call.input = Acct12
    /\ call.w.calls = <<[id |-> FieldAccountID, values |-> <<Acct12>>]>>

\* C10: ScanInstanceID writes its input to the instance-id field if the input
\* starts with "i-", and writes nothing otherwise.
C10_ScanInstanceIDWritesIffPrefix ==
    call.op = "ScanInstanceID"
        => call.w.calls = IF StartsWithIDash(call.input)
                          THEN <<[id |-> FieldInstanceID, values |-> <<call.input>>]>>
                          ELSE <<>>

C10_Witness ==
    /\ call.op = "ScanInstanceID"
    /\ call.input = InstOK
    /\ call.w.calls = <<[id |-> FieldInstanceID, values |-> <<InstOK>>]>>

RECURSIVE ColonPositions(_, _)
\* The positions of the ":" of a text from position p on, in order.
ColonPositions(v, p) ==
    IF p > Len(v) THEN <<>>
    ELSE (IF v[p] = ":" THEN <<p>> ELSE <<>>) \o ColonPositions(v, p + 1)

\* A text of the form arn:partition:service:region:account-id:resource, the
\* resource being all that follows the fifth ":".
IsArn(v) ==
    /\ Len(v) >= 4
    /\ SubSeq(v, 1, 4) = <<"a", "r", "n", ":">>
    /\ Len(ColonPositions(v, 1)) >= 5

ArnAccount(v) == SubSeq(v, ColonPositions(v, 1)[4] + 1, ColonPositions(v, 1)[5] - 1)

ArnResource(v) == SubSeq(v, ColonPositions(v, 1)[5] + 1, Len(v))

\* The text after the last "/" of a text that holds one.
AfterLastSlash(v) ==
    LET p == CHOOSE i \in 1..Len(v) : v[i] = "/" /\ \A j \in (i + 1)..Len(v) : v[j] # "/"
    IN  SubSeq(v, p + 1, Len(v))

\* The instance id ScanARN is to write for a resource segment, if any.
HasInstanceID(res) ==
    /\ Len(res) >= 9
    /\ SubSeq(res, 1, 9) = <<"i", "n", "s", "t", "a", "n", "c", "e", "/">>
    /\ res[Len(res)] # "/"
    /\ StartsWithIDash(AfterLastSlash(res))

\* C11: for an input that parses as an ARN, ScanARN writes the raw input to
\* the ARN field, then the account segment to the account-id field iff it is
\* exactly 12 ASCII digits, then the text after the last "/" of the resource
\* segment to the instance-id field iff the resource begins with "instance/",
\* does not end in "/" and that text begins with "i-"; the resource
\* "instance/" yields no instance id.
C11_ScanARNWrites ==
    (call.op = "ScanARN" /\ IsArn(call.input))
        => /\ call.w.calls =
                  <<[id |-> FieldARN, values |-> <<call.input>>]>>
                  \o (IF IsTwelveAsciiDigits(ArnAccount(call.input))
                      THEN <<[id |-> FieldAccountID, values |-> <<ArnAccount(call.input)>>]>>
                      ELSE <<>>)
                  \o (IF HasInstanceID(ArnResource(call.input))
                      THEN <<[id |-> FieldInstanceID,
                              values |-> <<AfterLastSlash(ArnResource(call.input))>>]>>
                      ELSE <<>>)
           /\ ArnResource(call.input) = ResInstance
                  => \A k \in 1..Len(call.w.calls) : call.w.calls[k].id # FieldInstanceID

\* An ARN whose resource holds two "/": the id is what follows the last one.
C11_Witness ==
    /\ call.op = "ScanARN"
    /\ call.input = Arn(Acct12, ResInstance \o <<"a", "/">> \o InstOK)
    /\ call.w.calls = <<[id |-> FieldARN, values |-> <<call.input>>],
                        [id |-> FieldAccountID, values |-> <<Acct12>>],
                        [id |-> FieldInstanceID, values |-> <<InstOK>>]>>

\* C12: for an input that does not parse as an ARN, ScanARN writes nothing
\* to any field and returns with the writer as it was.
C12_ScanARNNoOpOnNonARN ==
    (call.op = "ScanARN" /\ ~IsArn(call.input)) => call.w = RecWriter

\* An ARN without its first character: six sections, but not the prefix.
C12_Witness ==
    /\ call.op = "ScanARN"
    /\ call.input = Tail(Arn(Acct12, ResInstance \o InstOK))
    /\ call.w = RecWriter

\* The attempts of the current call that reported an error.
Failed(k) == attempts[k].end.Error # NoError

\* C4: tryDecoder.DecodeTime invokes its decoders in the order of the chain,
\* invokes a decoder only after every decoder before it reported an error, and
\* stops at the first that reports none, returning that decoder's timestamp
\* and leaving no error on the caller's iterator.
C4_TryInOrderUntilFirstSuccess ==
    /\ Len(attempts) <= Len(decoders)
    /\ \A k \in 1..Len(attempts) :
          /\ attempts[k].i = k - 1
          /\ attempts[k].dec = decoders[k]
          /\ \A j \in 1..(k - 1) : Failed(j)
    /\ pc = "loop" => \A k \in 1..Len(attempts) : Failed(k)
    /\ pc = "done" =>
          /\ attempts # <<>>
          /\ Failed(Len(attempts)) => Len(attempts) = Len(decoders)
          /\ ~Failed(Len(attempts)) => (ret = attempts[Len(attempts)].tm /\ iter.Error = NoError)

\* The chain [layoutCodec("bad"), epoch seconds] decodes "1577836800" with
\* its second decoder, to 2020-01-01T00:00:00Z.
C4_Witness ==
    /\ pc = "done"
    /\ decoders = <<LayoutCodec(LayoutBad), UnixSecondsCodec>>
    /\ rawJSON = Quote(StrSec)
    /\ Len(attempts) = 2
    /\ Failed(1)
    /\ ~Failed(2)
    /\ ret = Time2020
    /\ iter.Error = NoError

\* C5: when every decoder of the chain reports an error, DecodeTime returns
\* the zero timestamp and the caller's iterator holds the error the last
\* decoder of the chain reported.
C5_TryExhaustedSurfacesLastError ==
    (pc = "done" /\ \A k \in 1..Len(attempts) : Failed(k))
        => /\ Len(attempts) = Len(decoders)
           /\ ret = ZeroTime
           /\ iter.Error = attempts[Len(attempts)].end.Error
           /\ iter.Error # NoError

\* Two decoders failed with different errors, and the second one's is kept.
C5_Witness ==
    /\ pc = "done"
    /\ Len(attempts) = 2
    /\ Failed(1)
    /\ Failed(2)
    /\ attempts[1].end.Error # attempts[2].end.Error
    /\ iter.Error = attempts[2].end.Error
    /\ ret = ZeroTime

\* C6: every attempt starts with the scratch iterator at the beginning of the
\* complete original raw value and with no error set.
C6_EveryAttemptSeesOriginalValue ==
    \A k \in 1..Len(attempts) :
        /\ attempts[k].start.buf = callerIn.value
        /\ attempts[k].start.head = 0
        /\ attempts[k].start.Error = NoError

\* A second attempt, after a first one that reported an error having
\* consumed a part of the value only.
C6_Witness ==
    /\ Len(attempts) = 2
    /\ Failed(1)
    /\ attempts[1].end.head > 0
    /\ attempts[1].end.head < Len(callerIn.value)
    /\ attempts[2].start = NewIterator(callerIn.value)

\* C7: the scratch iterator is borrowed once per call and is back in the pool
\* when DecodeTime returns, on every exit path: one iterator is out while a
\* call is in progress, none otherwise.
C7_BorrowedIteratorReturned ==
    /\ pc \in {"idle", "done"} => borrowed = 0
    /\ pc = "loop" => borrowed = 1

\* A call that returned after a failed and a successful attempt, the iterator
\* back in the pool.
C7_Witness ==
    /\ pc = "done"
    /\ Len(attempts) = 2
    /\ Failed(1)
    /\ ~Failed(2)
    /\ borrowed = 0
    /\ pool # <<>>

RECURSIVE NoLocOnLoc(_)
\* No locEncoder directly wraps a locEncoder, no locDecoder a locDecoder.
NoLocOnLoc(c) ==
    CASE c.type = "locEncoder" -> c.encode.type # "locEncoder" /\ NoLocOnLoc(c.encode)
      [] c.type = "locDecoder" -> c.decode.type # "locDecoder" /\ NoLocOnLoc(c.decode)
      [] c.type = "joinCodec" -> NoLocOnLoc(c.encode) /\ NoLocOnLoc(c.decode)
      [] OTHER -> TRUE

\* C13: re-applying a timezone override replaces the previous one: for the
\* encoder, the decoder and the codecs built so far and all locations l1, l2,
\* EncodeIn(l2, EncodeIn(l1, e)) is EncodeIn(l2, e), DecodeIn(l2, DecodeIn(l1, d))
\* is DecodeIn(l2, d) and In(l2, In(l1, c)) is In(l2, c); and no locEncoder or
\* locDecoder directly wraps another.
C13_OverrideReplaces ==
    /\ \A l1 \in Locations, l2 \in Locations :
          /\ tenc # NilCodec => EncodeIn(l2, EncodeIn(l1, tenc)) = EncodeIn(l2, tenc)
          /\ tdec # NilCodec => DecodeIn(l2, DecodeIn(l1, tdec)) = DecodeIn(l2, tdec)
          /\ \A c \in {tdec, tenc} : IsTimeCodec(c) => In(l2, In(l1, c)) = In(l2, c)
    /\ NoLocOnLoc(tenc)
    /\ NoLocOnLoc(tdec)
    /\ (codecOp.op = "EncodeIn" /\ codecOp.enc.type = "locEncoder")
          => tenc = [type |-> "locEncoder", encode |-> codecOp.enc.encode, loc |-> codecOp.loc]
    /\ (codecOp.op = "DecodeIn" /\ codecOp.dec.type = "locDecoder")
          => tdec = [type |-> "locDecoder", decode |-> codecOp.dec.decode, loc |-> codecOp.loc]

\* EncodeIn was applied to a locEncoder of another location, DecodeIn before
\* it to a locDecoder: the new location is on what the old one wrapped.
C13_Witness ==
    /\ codecOp.op = "EncodeIn"
    /\ codecOp.enc.type = "locEncoder"
    /\ codecOp.enc.loc # codecOp.loc
    /\ tenc = [type |-> "locEncoder", encode |-> StdCodec, loc |-> codecOp.loc]
    /\ tdec.type = "locDecoder"

RECURSIVE NoJoinNesting(_)
\* No joinCodec is a component of a joinCodec or wrapped by a locEncoder or
\* a locDecoder.
NoJoinNesting(c) ==
    CASE c.type = "joinCodec" ->
             /\ c.encode.type # "joinCodec"
             /\ c.decode.type # "joinCodec"
             /\ NoJoinNesting(c.encode)
             /\ NoJoinNesting(c.decode)
      [] c.type = "locEncoder" -> c.encode.type # "joinCodec" /\ NoJoinNesting(c.encode)
      [] c.type = "locDecoder" -> c.decode.type # "joinCodec" /\ NoJoinNesting(c.decode)
      [] OTHER -> TRUE

\* C14: after any sequence of Join, Split, In, EncodeIn and DecodeIn from
\* base codecs, no joinCodec has a joinCodec as its decode or encode
\* component and no locEncoder or locDecoder wraps a joinCodec.
C14_NoJoinNesting ==
    /\ NoJoinNesting(tdec)
    /\ NoJoinNesting(tenc)

\* Join was applied to two joinCodecs made by In.
C14_Witness ==
    /\ codecOp.op = "Join"
    /\ codecOp.dec.type = "joinCodec"
    /\ codecOp.enc.type = "joinCodec"
    /\ codecOp.dec.decode.type = "locDecoder"
    /\ tdec.type = "joinCodec"
    /\ tdec.decode = codecOp.dec.decode
    /\ tdec.encode = codecOp.enc.encode

\* C15: after any sequence of Append* operations on a row, with no values,
\* rejected values or nil pointers among them, each of the four collections
\* is non-nil only if it holds at least one value.
C15_CollectionCreatedByFirstValue ==
    \A f \in FieldIDs : ~row[f].isNil => row[f].items # <<>>

\* What a collection held before a step it holds after it, in the same order,
\* and a collection that was created stays.
Keeps(f) ==
    /\ Len(row[f].items) <= Len(row'[f].items)
    /\ SubSeq(row'[f].items, 1, Len(row[f].items)) = row[f].items
    /\ ~row[f].isNil => ~row'[f].isNil

\* A step changes the collections of the fields fs at most.
OnlyFields(fs) == \A f \in FieldIDs \ fs : row'[f] = row[f]

\* C16: writes only accumulate: every operation on a row keeps each value a
\* collection held, removes and replaces none, and an operation on one
\* field's collection leaves the collections of the other fields unchanged.
C16_WritesAccumulate ==
    [][\/ row' = row
       \/ /\ \A f \in FieldIDs : Keeps(f)
          /\ \/ OnlyFields({FieldAccountID})
             \/ ~(DoAppendAnyAWSAccountIds \/ DoAppendAnyAWSAccountIdPtrs \/ DoScanAccountID)
          /\ \/ OnlyFields({FieldInstanceID})
             \/ ~(DoAppendAnyAWSInstanceIds \/ DoAppendAnyAWSInstanceIdPtrs \/ DoScanInstanceID)
          /\ \/ OnlyFields({FieldARN})
             \/ ~(DoAppendAnyAWSARNs \/ DoAppendAnyAWSARNPtrs)
          /\ \/ OnlyFields({FieldTag})
             \/ ~(DoAppendAnyAWSTags \/ DoAppendAnyAWSTagPtrs)
          /\ \/ OnlyFields({FieldARN, FieldAccountID, FieldInstanceID})
             \/ ~DoScanARN]_vars

\* Two collections that hold a value each: the later write kept the earlier.
C16_Witness ==
    /\ row[FieldTag].items = <<InstOK>>
    /\ row[FieldAccountID].items = <<Acct12>>

\* The number of registrations called for with a key.
TimesRegistered(kind, key) ==
    Cardinality({k \in 1..Len(regLog) : regLog[k].kind = kind /\ regLog[k].key = key})

AWSScanners == {"aws_arn", "aws_instance_id", "aws_tag", "aws_account_id"}

\* The registrations of the AWS family called for so far.
AWSLog(k) ==
    \/ regLog[k].kind = "field" /\ regLog[k].key \in FieldIDs
    \/ regLog[k].kind = "scanner" /\ regLog[k].key \in AWSScanners

\* C17: during the initialization each of the four field ids and each of the
\* four scanner names of the AWS family is registered at most once, and
\* exactly once when awslogs.init is over; the four ids are pairwise
\* distinct; when a scanner is registered each of its output fields was
\* registered before; and the process is never halted for a duplicate id or
\* name or for an unknown output field.
C17_InitRegistersOnceInOrder ==
    /\ fatal = ""
    /\ Cardinality(FieldIDs) = 4
    /\ Cardinality({k \in 1..Len(regLog) : AWSLog(k)}) = initStep
    /\ \A id \in FieldIDs :
          /\ TimesRegistered("field", id) <= 1
          /\ TimesRegistered("field", id) = 1 <=> id \in DOMAIN fieldRegistry
          /\ initStep = 8 => TimesRegistered("field", id) = 1
    /\ \A name \in AWSScanners :
          /\ TimesRegistered("scanner", name) <= 1
          /\ TimesRegistered("scanner", name) = 1 <=> name \in DOMAIN scannerRegistry
          /\ initStep = 8 => TimesRegistered("scanner", name) = 1
    /\ \A k \in 1..Len(regLog) :
          regLog[k].kind = "scanner" =>
              \A i \in 1..Len(regLog[k].fields) :
                  \E j \in 1..(k - 1) :
                      regLog[j].kind = "field" /\ regLog[j].key = regLog[k].fields[i]

\* awslogs.init is over, after the init of a package and before that of
\* another: the four fields and the four scanners are in the registries.
C17_Witness ==
    /\ initStep = 8
    /\ fatal = ""
    /\ DOMAIN fieldRegistry = {1, 2} \cup FieldIDs
    /\ DOMAIN scannerRegistry = AWSScanners \cup {"ip"}
    /\ scannerRegistry["aws_arn"].fields = <<FieldARN, FieldAccountID, FieldInstanceID>>
    /\ regLog[1].key = 1
    /\ regLog[Len(regLog)].key = 2

\* ---- The epoch codecs against exact decimal arithmetic ----

\* The digit characters and their values.
DigitValue(ch) ==
    CASE ch = "0" -> 0 [] ch = "1" -> 1 [] ch = "2" -> 2 [] ch = "3" -> 3 [] ch = "4" -> 4
      [] ch = "5" -> 5 [] ch = "6" -> 6 [] ch = "7" -> 7 [] ch = "8" -> 8 [] ch = "9" -> 9

DigitChar(v) == <<"0", "1", "2", "3", "4", "5", "6", "7", "8", "9">>[v + 1]

\* A decimal text without its leading zeros; <<"0">> for zero.
RECURSIVE StripZeros(_)
StripZeros(ds) ==
    IF Len(ds) > 1 /\ Head(ds) = "0" THEN StripZeros(Tail(ds))
    ELSE IF ds = <<>> THEN <<"0">> ELSE ds

\* One step of the long division of a decimal text by c: the quotient so far
\* and the remainder, with one more digit taken.
LongDivStep(p, ch, c) ==
    [q |-> Append(p.q, DigitChar((p.r * 10 + DigitValue(ch)) \div c)),
     r |-> (p.r * 10 + DigitValue(ch)) % c]

\* The quotient (as a decimal text) and the remainder of the decimal text ds
\* divided by c, exactly, whatever the length of ds.
RECURSIVE LongDiv(_, _)
LongDiv(ds, c) ==
    IF ds = <<>> THEN [q |-> <<>>, r |-> 0]
    ELSE LongDivStep(LongDiv(SubSeq(ds, 1, Len(ds) - 1), c), ds[Len(ds)], c)

\* The decimal text of a natural number.
RECURSIVE NatText(_)
NatText(n) == IF n < 10 THEN <<DigitChar(n)>> ELSE Append(NatText(n \div 10), DigitChar(n % 10))

MillisPerDay == SecondsPerDay * 1000

\* Whether tm is the instant exactly the count of milliseconds of the decimal
\* text after the UNIX epoch (before it, for a negative count): the days by
\* long division, the rest of the day from the remainder.
IsInstantOfMillis(tm, text) ==
    LET neg  == Head(text) = "-"
        d    == LongDiv(IF neg THEN Tail(text) ELSE text, MillisPerDay)
        rest == IF neg /\ d.r # 0 THEN MillisPerDay - d.r ELSE d.r
    IN  /\ tm.sod = rest \div 1000
        /\ tm.nsec = (rest % 1000) * 1000000
        /\ IF ~neg THEN tm.day >= 0 /\ NatText(tm.day) = StripZeros(d.q)
           ELSE IF d.r = 0 THEN tm.day <= 0 /\ NatText(-tm.day) = StripZeros(d.q)
           ELSE tm.day < 0 /\ NatText(-tm.day - 1) = StripZeros(d.q)

\* C18: for the epoch-millis codec, decoding the JSON integer n, or the numeric
\* string of n, that the decoder accepts yields the instant exactly n
\* milliseconds after the UNIX epoch, and encoding that instant writes the
\* integer n again; 1577836800000 decodes to 2020-01-01T00:00:00Z.
C18_MillisRoundTrip ==
    (call.op = "MillisRoundTrip" /\ call.it.Error = NoError) =>
        /\ IsInstantOfMillis(call.tm, call.text)
        /\ call.stream = <<[kind |-> "int64", text |-> call.text]>>
        /\ call.text = Str1577836800000 =>
              call.tm.day = Time2020.day /\ call.tm.sod = 0 /\ call.tm.nsec = 0

\* The first six digits of the fraction of a decimal number: its microseconds
\* below the second, whatever the digits after them.
MicrosDigits(f) == SubSeq(PadRight(f.frac, 6), 1, 6)

\* The value of a text of at most nine digits.
RECURSIVE NatOfText(_)
NatOfText(ds) ==
    IF ds = <<>> THEN 0 ELSE NatOfText(SubSeq(ds, 1, Len(ds) - 1)) * 10 + DigitValue(ds[Len(ds)])

\* Whether tm is the instant of the decimal number of seconds s, cut to whole
\* microseconds towards zero, after the UNIX epoch (before it, for a negative
\* s): the days by long division of the whole seconds.
IsInstantOfSeconds(tm, s) ==
    LET d      == LongDiv(s.whole, SecondsPerDay)
        micros == NatOfText(MicrosDigits(s))
    IN  IF ~s.neg
        THEN /\ tm.day >= 0 /\ NatText(tm.day) = StripZeros(d.q)
             /\ tm.sod = d.r
             /\ tm.nsec = micros * 1000
        ELSE IF micros = 0
        THEN /\ tm.nsec = 0
             /\ IF d.r = 0 THEN tm.day <= 0 /\ NatText(-tm.day) = StripZeros(d.q) /\ tm.sod = 0
                ELSE tm.day < 0 /\ NatText(-tm.day - 1) = StripZeros(d.q)
                       /\ tm.sod = SecondsPerDay - d.r
        ELSE /\ tm.nsec = (1000000 - micros) * 1000
             /\ tm.day < 0 /\ NatText(-tm.day - 1) = StripZeros(d.q)
             /\ tm.sod = SecondsPerDay - 1 - d.r

\* Whether the number written differs from s by less than one microsecond,
\* being s cut to whole microseconds: the same sign, the same whole seconds,
\* the same microseconds and nothing below them.
IsSecondsCutToMicros(w, s) ==
    /\ w.kind = "float64"
    /\ w.f.neg = s.neg
    /\ w.f.whole = StripZeros(s.whole)
    /\ SubSeq(w.f.frac, 1, 6) = MicrosDigits(s)
    /\ SubSeq(w.f.frac, 7, Len(w.f.frac)) = <<"0", "0", "0">>

\* C19: for the epoch-seconds codec, the instant decoded from a number of
\* seconds s is s truncated to microsecond precision, and encoding that instant
\* writes a number that differs from s by less than one microsecond.
C19_SecondsRoundTrip ==
    (call.op = "SecondsRoundTrip" /\ call.it.Error = NoError) =>
        /\ IsInstantOfSeconds(call.tm, ParseDecimal(call.text))
        /\ Len(call.stream) = 1
        /\ IsSecondsCutToMicros(call.stream[1], ParseDecimal(call.text))

\* ---- destroyCfnStacks ----

\* Whether the deletion of a stack has started; whether it has finished,
\* successfully or not.
Started(stack) == stacks[stack] # "none"

Finished(stack) == stacks[stack] \in {"deleted", "failed", "sent"}

\* C20: in destroyCfnStacks with no master stack, in every interleaving of the
\* delete goroutines, the deletion of the bootstrap-gateway stack starts only
\* after all seven parallel stacks have finished deleting, successfully or
\* not, and the deletion of the bootstrap stack starts only after that of
\* bootstrap-gateway has finished.
C20_BootstrapStacksLast ==
    /\ Len(parallelStacks) = 7
    /\ Started(Gateway) => \A i \in 1..Len(parallelStacks) : Finished(parallelStacks[i])
    /\ Started(Bootstrap) => Finished(Gateway)

\* The bootstrap stack is being deleted after a run in which some of the
\* parallel stacks failed to delete and some did not.
C20_Witness ==
    /\ stacks[Bootstrap] = "deleting"
    /\ errCount > 0
    /\ errCount < finishCount
    /\ \E i \in 1..Len(parallelStacks) : stacks[parallelStacks[i]] = "sent"

\* The stacks whose deleteStack returned an error.
FailedStacks == {s \in AllStacks : outcome[s] = "error"}

\* destroyCfnStacks was called with no master stack and has returned.
ReturnedNoMaster == masterStack = "" /\ cfnPc = "returned"

\* What holds when it has: every stack was deleted or failed to, each of the
\* nine results was received once, the counters say so, and an error is
\* returned exactly when a deletion failed.
AtReturn ==
    ReturnedNoMaster =>
        /\ Cardinality(AllStacks) = 9
        /\ \A s \in AllStacks : outcome[s] # "none" /\ stacks[s] = "sent" /\ received[s] = 1
        /\ finishCount = 9
        /\ errCount = Cardinality(FailedStacks)
        /\ cfnErr = "error" <=> FailedStacks # {}

\* No result is received before its goroutine has it, nor twice.
ReceivedOnce ==
    \A s \in AllStacks : received[s] <= 1 /\ (received[s] = 1 => outcome[s] # "none")

\* C21: destroyCfnStacks with no master stack always terminates, without
\* deadlock, provided every deleteStack call returns; each of the nine
\* goroutines sends one result and each result is received exactly once,
\* finishCount ends at nine, a failure of one stack does not keep the other
\* stacks (the bootstrap stacks included) from being deleted, and the function
\* returns an error iff at least one deletion failed, with errCount equal to
\* the number of failed deletions.
C21_TerminatesAndCounts ==
    /\ [](AtReturn /\ ReceivedOnce)
    /\ (masterStack = "" /\ cfnPc = "spawn") ~> (cfnPc = "returned")

\* destroyCfnStacks has returned an error after a run in which a parallel
\* stack failed to delete and the bootstrap stacks were deleted all the same.
C21_Witness ==
    /\ ReturnedNoMaster
    /\ cfnErr = "error"
    /\ outcome[parallelStacks[1]] = "error"
    /\ outcome[Gateway] = "nil"
    /\ outcome[Bootstrap] = "nil"
    /\ finishCount = 9

\* ---- tryDecoder.DecodeTime and the caller's iterator ----

\* The caller's iterator moved over the one value it was at, and over nothing
\* else: the same bytes, the head after the value, the value captured.
ConsumedOneValue ==
    /\ iter.buf = callerIn.it.buf
    /\ iter.head = callerIn.it.head + Len(callerIn.value)
    /\ rawJSON = callerIn.value
    /\ SubSeq(iter.buf, callerIn.it.head + 1, iter.head) = callerIn.value

\* The chain succeeded: the call is over and its last attempt left no error.
Succeeded == pc = "done" /\ attempts # <<>> /\ ~Failed(Len(attempts))

\* C22: tryDecoder.DecodeTime consumes exactly one JSON value from the
\* caller's iterator, once, before the first attempt, whether the chain
\* succeeds or fails; the chained decoders read from the scratch iterator only
\* and never from the caller's; on success the only effect on the caller's
\* iterator is that advance, its error state left as it was.
C22_CallerIteratorAdvancesOnce ==
    /\ [](pc \in {"loop", "done"} => ConsumedOneValue)
    /\ [](Succeeded => iter = [callerIn.it EXCEPT !.head = @ + Len(callerIn.value)])
    /\ [][(pc = "idle" /\ pc' = "loop") => attempts' = <<>>]_vars
    /\ [][pc = "loop" =>
             /\ iter'.buf = iter.buf /\ iter'.head = iter.head
             /\ Len(attempts') > Len(attempts) =>
                   /\ iter' = iter
                   /\ attempts'[Len(attempts')].start.buf = rawJSON
                   /\ attempts'[Len(attempts')].end.buf = rawJSON]_vars

\* A chain succeeded at its second decoder on a value followed by other
\* bytes, after a first decoder that consumed a part of the value and failed.
C22_Witness ==
    /\ Succeeded
    /\ Len(attempts) = 2
    /\ attempts[1].end.head > 0
    /\ iter.head < Len(iter.buf)
    /\ callerIn.it.head > 0
    /\ iter.Error = NoError

====
